---------------------------- MODULE Spec2Model ----------------------------
(***************************************************************************)
(* Groupify: receipt parsing and bill splitting.                           *)
(*                                                                         *)
(* Money that the program holds as a float (item prices, totals, tips,     *)
(* settlement amounts) is an integer number of cents.  Money that the      *)
(* program holds as a decimal.Decimal (balances, equal share, remaining    *)
(* amounts) is an integer number of DecUnit-ths of a cent: the decimal     *)
(* context keeps 28 significant digits and rounds a quotient half-even at  *)
(* the last one, the model keeps DecPlaces digits below the cent and       *)
(* rounds a quotient half-even at the last one.                            *)
(*                                                                         *)
(* A string is a sequence of one-character strings over the ASCII letters, *)
(* digits and punctuation of the receipts below and the Cyrillic letters   *)
(* of one item name; the Cyrillic alternatives of the regular expressions  *)
(* never match such a text and are left out.                               *)
(* A price below the cent is cut to whole cents.  DECIMAL_QUANTIZE and     *)
(* TOTAL_SUM_PATTERNS are imported by the source and defined in none of    *)
(* its files: the first is taken as two decimals, the second as the two    *)
(* total patterns of constants.PATTERNS.                                   *)
(***************************************************************************)
EXTENDS Integers, Sequences, FiniteSets, TLC

VARIABLES
    people,          \* BillSplitter.people: list of names
    items,           \* Receipt.items: list of ReceiptItem
    total,           \* Receipt.total (cents)
    original_total,  \* Receipt.original_total (cents)
    tip_amount,      \* Receipt.tip_amount (cents)
    balances,        \* BillSplitter.balances: dict name -> Decimal
    settlements,     \* BillSplitter.settlements: list of Settlement
    currency,        \* Receipt.currency
    text,            \* the OCR text given to ReceiptParser.parse: list of lines
    merged,          \* the list _merge_duplicate_items returns
    deduplicated,    \* the lines _deduplicate_by_line_similarity returns
    cli,             \* GroupifyCLI: whether receipt and splitter are set, inputs read
    exported,        \* the data export_results hands to json.dump
    call,            \* the function that runs a ThreadPoolExecutor, "none" outside
    futures,         \* the futures of the executor, in the order of submission
    collected,       \* what the calling thread has collected from the futures
    raised,          \* TRUE iff the last call ended by raising an exception
    last             \* name of the last operation called

vars == <<people, items, total, original_total, tip_amount, currency,
          balances, settlements, text, merged, deduplicated, call, futures,
          collected, cli, exported, raised, last>>

\* the state of the BillSplitter object, apart from its receipt
splitterVars == <<people, balances, settlements>>

\* the state of a ThreadPoolExecutor and of the thread that reads it
poolVars == <<call, futures, collected>>

\* the arguments and results of the parser's functions, and the executor
\* the state of the command-line session
cliVars == <<cli, exported>>

\* the arguments and results of the parser's functions, the executor and the
\* command-line session, which BillSplitter and Receipt never touch
parserVars == <<text, merged, deduplicated, poolVars, cliVars>>

-----------------------------------------------------------------------------
(* Bounds of the model *)

MaxPeople == 4
MaxItems == 2
MaxCents == 3
TipCents == 1

(* Program constants *)

EpsilonCents == 1

-----------------------------------------------------------------------------
(* Generic helpers *)

Range(s) == {s[k] : k \in DOMAIN s}

Abs(x) == IF x < 0 THEN -x ELSE x

Max(a, b) == IF a > b THEN a ELSE b

Min(a, b) == IF a <= b THEN a ELSE b

RECURSIVE SumSeq(_)
SumSeq(s) == IF s = <<>> THEN 0 ELSE Head(s) + SumSeq(Tail(s))

EmptyDict == [x \in {} |-> 0]

\* GroupifyCLI.__init__: no receipt, no splitter, no input read
NoSession == [receipt |-> FALSE, splitter |-> FALSE, inputs |-> 0]

\* nothing handed to json.dump yet
NothingExported ==
    [analysis |-> FALSE, individual_shares |-> EmptyDict, settlements |-> <<>>,
     failed |-> FALSE]

-----------------------------------------------------------------------------
(* decimal.Decimal arithmetic *)

DecPlaces == 4

DecUnit == 10 ^ DecPlaces

\* Decimal(str(x)) of a float x holding a whole number of cents
ToDec(cents) == cents * DecUnit

\* a / Decimal(n) for a >= 0: the context rounds the quotient half-even
DecDiv(a, n) ==
    LET q == a \div n
        r == a % n
    IN  IF 2 * r > n \/ (2 * r = n /\ q % 2 = 1) THEN q + 1 ELSE q

\* v.quantize(DECIMAL_QUANTIZE, rounding=ROUND_HALF_UP) for v >= 0
Quantize(v) == ((2 * v + DecUnit) \div (2 * DecUnit)) * DecUnit

\* float(v) of a quantized Decimal, in cents
ToCents(v) == v \div DecUnit

SETTLEMENT_EPSILON == ToDec(EpsilonCents)

-----------------------------------------------------------------------------
(* BillSplitter (bill_splitter.py) *)

\* number of occurrences of p in the list s
Count(s, p) == Cardinality({k \in DOMAIN s : s[k] = p})

\* lines 35-39 for one item: what the item adds to the balance of person p
ItemShare(it, p) ==
    IF it.assigned_to # <<>>
    THEN Count(it.assigned_to, p) * DecDiv(ToDec(it.price), Len(it.assigned_to))
    ELSE 0

RECURSIVE ItemShares(_, _)
ItemShares(its, p) ==
    IF its = <<>> THEN 0 ELSE ItemShare(Head(its), p) + ItemShares(Tail(its), p)

\* calculate_balances without lines 42-45: no tip is added
TipShareDropped(tip, ppl) == 0

\* lines 42-45: the tip added to every person's balance
TipShare(tip, ppl) == IF tip > 0 THEN DecDiv(ToDec(tip), Len(ppl)) ELSE 0

\* calculate_balances raises (division by Decimal(0)) iff a tip is split among nobody
CalcRaises(ppl, tip) == tip > 0 /\ Len(ppl) = 0

\* the dict calculate_balances leaves in self.balances when it does not raise:
\* only the people of self.people get a key, so a share of any other name is dropped
CalcBalances(ppl, its, tip) ==
    [p \in Range(ppl) |-> Quantize(ItemShares(its, p) + TipShare(tip, ppl))]

\* assign_items_equally
AssignEqually(its, ppl) ==
    [k \in DOMAIN its |->
        IF its[k].assigned_to = <<>> THEN [its[k] EXCEPT !.assigned_to = ppl]
        ELSE its[k]]

\* line 58
EqualShare(tot, ppl) == DecDiv(ToDec(tot), Len(ppl))

\* line 64
Difference(bal, p, share) == bal[p] - share

\* the test of line 65 written `>=`: a difference of exactly epsilon is a surplus
IsCreditorOrEqual(d) == d >= SETTLEMENT_EPSILON

\* line 65
IsCreditor(d) == d > SETTLEMENT_EPSILON

IsDebtor(d) == ~IsCreditor(d) /\ d < -SETTLEMENT_EPSILON

RECURSIVE CreditorList(_, _, _)
\* lines 63-66: creditors in the order of self.people
CreditorList(ppl, bal, share) ==
    IF ppl = <<>> THEN <<>>
    ELSE LET d == Difference(bal, Head(ppl), share)
             rest == CreditorList(Tail(ppl), bal, share)
         IN  IF IsCreditor(d) THEN <<[name |-> Head(ppl), amount |-> d]>> \o rest
             ELSE rest

RECURSIVE DebtorListAbs(_, _, _)
\* DebtorList with the test written `if abs(difference) > epsilon`: a creditor is
\* listed as a debtor too
DebtorListAbs(ppl, bal, share) ==
    IF ppl = <<>> THEN <<>>
    ELSE LET d == Difference(bal, Head(ppl), share)
             rest == DebtorListAbs(Tail(ppl), bal, share)
         IN  IF Abs(d) > SETTLEMENT_EPSILON
             THEN <<[name |-> Head(ppl), amount |-> Abs(d)]>> \o rest
             ELSE rest

RECURSIVE DebtorList(_, _, _)
\* lines 63-68: debtors in the order of self.people
DebtorList(ppl, bal, share) ==
    IF ppl = <<>> THEN <<>>
    ELSE LET d == Difference(bal, Head(ppl), share)
             rest == DebtorList(Tail(ppl), bal, share)
         IN  IF IsDebtor(d) THEN <<[name |-> Head(ppl), amount |-> -d]>> \o rest
             ELSE rest

RECURSIVE InsertDesc(_, _)
\* e put after every element of the sorted list s whose amount is >= e.amount
InsertDesc(s, e) ==
    IF s = <<>> THEN <<e>>
    ELSE IF Head(s).amount >= e.amount THEN <<Head(s)>> \o InsertDesc(Tail(s), e)
    ELSE <<e>> \o s

RECURSIVE SortDesc(_)
\* list.sort(key=amount, reverse=True): descending and stable
SortDesc(s) ==
    IF s = <<>> THEN <<>>
    ELSE InsertDesc(SortDesc(SubSeq(s, 1, Len(s) - 1)), s[Len(s)])

\* MakeSettlement with from_person and to_person exchanged
MakeSettlementSwapped(debtor, creditor, amount, cur) ==
    [from_person |-> creditor.name, to_person |-> debtor.name,
     amount |-> ToCents(Quantize(amount)), currency |-> cur]

\* lines 80-85
MakeSettlement(debtor, creditor, amount, cur) ==
    [from_person |-> debtor.name, to_person |-> creditor.name,
     amount |-> ToCents(Quantize(amount)), currency |-> cur]

RECURSIVE PairLoop(_, _, _, _, _, _)
\* lines 76-93; i and j count from 1
PairLoop(creditors, debtors, i, j, out, cur) ==
    IF ~(i <= Len(creditors) /\ j <= Len(debtors))
    THEN [settlements |-> out, i |-> i, j |-> j,
          creditors |-> creditors, debtors |-> debtors]
    ELSE LET amount == Min(creditors[i].amount, debtors[j].amount)
             out2 == IF amount > SETTLEMENT_EPSILON
                     THEN Append(out, MakeSettlement(debtors[j], creditors[i], amount, cur))
                     ELSE out
             cr2 == [creditors EXCEPT ![i].amount = @ - amount]
             db2 == [debtors EXCEPT ![j].amount = @ - amount]
             i2 == IF cr2[i].amount < SETTLEMENT_EPSILON THEN i + 1 ELSE i
             j2 == IF db2[j].amount < SETTLEMENT_EPSILON THEN j + 1 ELSE j
         IN  PairLoop(cr2, db2, i2, j2, out2, cur)

\* Pairing without the two sorts of lines 70-71: the lists stay in the order
\* of self.people
PairingUnsorted(ppl, bal, tot, cur) ==
    LET share == EqualShare(tot, ppl)
    IN  PairLoop(CreditorList(ppl, bal, share), DebtorList(ppl, bal, share),
                 1, 1, <<>>, cur)

\* lines 58-96 for a non-empty people list
Pairing(ppl, bal, tot, cur) ==
    LET share == EqualShare(tot, ppl)
    IN  PairLoop(SortDesc(CreditorList(ppl, bal, share)),
                 SortDesc(DebtorList(ppl, bal, share)), 1, 1, <<>>, cur)

\* BillSplitter.assign_items_equally()
AssignItemsEqually ==
    /\ items' = AssignEqually(items, people)
    /\ raised' = FALSE
    /\ last' = "assign_items_equally"
    /\ UNCHANGED <<people, total, original_total, tip_amount, currency,
                   balances, settlements, parserVars>>

\* BillSplitter.calculate_balances()
CalculateBalances ==
    /\ last' = "calculate_balances"
    /\ IF CalcRaises(people, tip_amount)
       THEN raised' = TRUE /\ UNCHANGED balances
       ELSE raised' = FALSE /\ balances' = CalcBalances(people, items, tip_amount)
    /\ UNCHANGED <<people, items, total, original_total, tip_amount, currency,
                   settlements, parserVars>>

\* BillSplitter.optimize_settlements()
OptimizeSettlements ==
    /\ last' = "optimize_settlements"
    /\ LET needCalc == DOMAIN balances = {}
           bal == IF needCalc THEN CalcBalances(people, items, tip_amount)
                  ELSE balances
       IN  IF needCalc /\ CalcRaises(people, tip_amount)
           THEN raised' = TRUE /\ UNCHANGED <<balances, settlements, cliVars>>
           ELSE IF Len(people) = 0
           \* line 58 divides by Decimal(0)
           THEN raised' = TRUE /\ balances' = bal /\ UNCHANGED settlements
           ELSE /\ raised' = FALSE
                /\ balances' = bal
                /\ settlements' = Pairing(people, bal, total, currency).settlements
    /\ UNCHANGED <<people, items, total, original_total, tip_amount, currency,
                   parserVars>>

-----------------------------------------------------------------------------
(* The receipts and people lists a BillSplitter is constructed with *)

AllNames == <<"A", "B", "C", "D", "E", "F">>

\* a name that is in no people list (a person removed after the assignment)
StaleName == "X"

PeopleList(n) == SubSeq(AllNames, 1, n)

\* the assigned_to lists of the model
AssignChoices(ppl) ==
    <<<<>>, <<StaleName>>, <<"A", StaleName>>, ppl>>
    \o [k \in 1..Len(ppl) |-> <<ppl[k]>>]

SplitItem(k, price, assigned) ==
    [id |-> k, name |-> <<"item">>, quantity |-> 1, unit_price |-> price,
     price |-> price, assigned_to |-> assigned]

\* the item lists of the model: up to MaxItems items, priced 1..MaxCents
ItemLists(ppl) ==
    LET choices == AssignChoices(ppl)
        Types == (1..MaxCents) \X (1..Len(choices))
        Before(s, t) == s[1] < t[1] \/ (s[1] = t[1] /\ s[2] <= t[2])
        TypeLists == UNION {[1..m -> Types] : m \in 0..MaxItems}
    IN  {[k \in DOMAIN tl |-> SplitItem(k, tl[k][1], choices[tl[k][2]])] :
            tl \in {t \in TypeLists :
                        \A k \in 1..(Len(t) - 1) : Before(t[k], t[k + 1])}}

SumPrices(its) == SumSeq([k \in DOMAIN its |-> its[k].price])

\* original_total after parse: the total found in the text, or the sum of the items
OriginalTotals(its) == {SumPrices(its), 0, 2 * MaxCents}

\* the receipt of the two-person example: A consumed 30.00, B 10.00, total 40.00
ExampleItems == <<SplitItem(1, 3000, <<"A">>), SplitItem(2, 1000, <<"B">>)>>

\* a receipt of four people: A consumed 40.00, B 20.00, C 4.00 and D nothing,
\* total 64.00
FourPeopleItems ==
    <<SplitItem(1, 4000, <<"A">>), SplitItem(2, 2000, <<"B">>),
      SplitItem(3, 400, <<"C">>)>>

InitSplit ==
    /\ \/ /\ \E n \in 0..MaxPeople : people = PeopleList(n)
          /\ items \in ItemLists(people)
          /\ original_total \in OriginalTotals(items)
          /\ tip_amount \in {0, TipCents}
       \/ /\ people = PeopleList(2)
          /\ items = ExampleItems
          /\ original_total = SumPrices(items)
          /\ tip_amount = 0
       \/ /\ people = PeopleList(4)
          /\ items = FourPeopleItems
          /\ original_total = SumPrices(items)
          /\ tip_amount = 0
    /\ total = original_total + tip_amount
    /\ currency = "BGN"
    /\ balances = EmptyDict
    /\ settlements = <<>>
    /\ text = <<>>
    /\ merged = <<>>
    /\ deduplicated = <<>>
    /\ call = "none"
    /\ futures = <<>>
    /\ collected = <<>>
    /\ cli = NoSession
    /\ exported = NothingExported
    /\ raised = FALSE
    /\ last = "init"

NextSplit == AssignItemsEqually \/ CalculateBalances \/ OptimizeSettlements

SpecSplit == InitSplit /\ [][NextSplit]_vars

-----------------------------------------------------------------------------
(* Text: a string is a sequence of one-character strings *)

Digits == {"0", "1", "2", "3", "4", "5", "6", "7", "8", "9"}

DigitValue(c) ==
    CASE c = "0" -> 0 [] c = "1" -> 1 [] c = "2" -> 2 [] c = "3" -> 3
      [] c = "4" -> 4 [] c = "5" -> 5 [] c = "6" -> 6 [] c = "7" -> 7
      [] c = "8" -> 8 [] c = "9" -> 9

DigitChar(d) ==
    CASE d = 0 -> "0" [] d = 1 -> "1" [] d = 2 -> "2" [] d = 3 -> "3"
      [] d = 4 -> "4" [] d = 5 -> "5" [] d = 6 -> "6" [] d = 7 -> "7"
      [] d = 8 -> "8" [] d = 9 -> "9"

LowerLetters == {"a", "b", "c", "d", "e", "f", "g", "h", "i", "j", "k", "l", "m",
                 "n", "o", "p", "q", "r", "s", "t", "u", "v", "w", "x", "y", "z"}

UpperLetters == {"A", "B", "C", "D", "E", "F", "G", "H", "I", "J", "K", "L", "M",
                 "N", "O", "P", "Q", "R", "S", "T", "U", "V", "W", "X", "Y", "Z"}

\* the Cyrillic letters of the word "Кафе", small and capital, written with
\* a mark before the Latin letter that stands for each
CyrillicLower == {"#k", "#a", "#f", "#e"}

CyrillicUpper == {"#K", "#A", "#F", "#E"}

\* str.lower() of one character
LowerChar(c) ==
    IF c \in CyrillicUpper
    THEN CASE c = "#K" -> "#k" [] c = "#A" -> "#a" [] c = "#F" -> "#f"
           [] c = "#E" -> "#e"
    ELSE IF c \notin UpperLetters THEN c
    ELSE CASE c = "A" -> "a" [] c = "B" -> "b" [] c = "C" -> "c" [] c = "D" -> "d"
           [] c = "E" -> "e" [] c = "F" -> "f" [] c = "G" -> "g" [] c = "H" -> "h"
           [] c = "I" -> "i" [] c = "J" -> "j" [] c = "K" -> "k" [] c = "L" -> "l"
           [] c = "M" -> "m" [] c = "N" -> "n" [] c = "O" -> "o" [] c = "P" -> "p"
           [] c = "Q" -> "q" [] c = "R" -> "r" [] c = "S" -> "s" [] c = "T" -> "t"
           [] c = "U" -> "u" [] c = "V" -> "v" [] c = "W" -> "w" [] c = "X" -> "x"
           [] c = "Y" -> "y" [] c = "Z" -> "z"

\* str.lower()
Lower(str) == [k \in DOMAIN str |-> LowerChar(str[k])]

\* [a-zA-Zа-яА-Я]
IsLetter(c) ==
    \/ c \in LowerLetters \/ c \in UpperLetters
    \/ c \in CyrillicLower \/ c \in CyrillicUpper

\* \w of the re module
IsWordChar(c) == IsLetter(c) \/ c \in Digits \/ c = "_"

RECURSIVE LStrip(_)
LStrip(str) ==
    IF str # <<>> /\ Head(str) = " " THEN LStrip(Tail(str)) ELSE str

RECURSIVE RStrip(_)
RStrip(str) ==
    IF str # <<>> /\ str[Len(str)] = " " THEN RStrip(SubSeq(str, 1, Len(str) - 1))
    ELSE str

\* str.strip()
Strip(str) == RStrip(LStrip(str))

RECURSIVE CollapseSpaces(_)
\* ' '.join(str.split()) of a stripped string: runs of spaces become one space
CollapseSpaces(str) ==
    IF Len(str) < 2 THEN str
    ELSE IF str[1] = " " /\ str[2] = " " THEN CollapseSpaces(Tail(str))
    ELSE <<Head(str)>> \o CollapseSpaces(Tail(str))

\* sub in str
Contains(str, sub) ==
    \E k \in 0..(Len(str) - Len(sub)) : SubSeq(str, k + 1, k + Len(sub)) = sub

\* the string after the first occurrence of c, the whole string if there is none
RECURSIVE AfterFirst(_, _)
AfterFirst(str, c) ==
    IF str = <<>> THEN <<>>
    ELSE IF Head(str) = c THEN Tail(str) ELSE AfterFirst(Tail(str), c)

RECURSIVE DigitsValue(_)
\* int(str) of a string of digits, 0 for the empty string
DigitsValue(str) ==
    IF str = <<>> THEN 0
    ELSE 10 * DigitsValue(SubSeq(str, 1, Len(str) - 1)) + DigitValue(str[Len(str)])

-----------------------------------------------------------------------------
(* ReceiptParser._clean_price (receipt_parser.py) *)

ITEM_PRICE_MIN == 1

ITEM_PRICE_MAX == 1000000

\* re.sub(r'[^\d,\.]', '', price_str)
KeepPriceChar(c) == c \in Digits \/ c = "," \/ c = "."

\* lines 37-41: the separators brought to the form float() reads
NormalizeSeparators(cleaned) ==
    LET hasComma == "," \in Range(cleaned)
        hasDot == "." \in Range(cleaned)
        NotDot(c) == c # "."
        CommaToDot(str) == [k \in DOMAIN str |-> IF str[k] = "," THEN "." ELSE str[k]]
    IN  IF hasComma /\ hasDot THEN CommaToDot(SelectSeq(cleaned, NotDot))
        ELSE IF hasComma /\ Count(cleaned, ",") = 1
        THEN IF Len(AfterFirst(cleaned, ",")) <= 2 THEN CommaToDot(cleaned)
             ELSE cleaned
        ELSE cleaned

\* float(str) succeeds: digits with at most one dot, and at least one digit
IsFloat(str) ==
    /\ \A k \in DOMAIN str : str[k] \in Digits \/ str[k] = "."
    /\ Count(str, ".") <= 1
    /\ \E k \in DOMAIN str : str[k] \in Digits

\* float(str) in cents, the digits after the second decimal dropped
FloatCents(str) ==
    LET NotDot(c) == c # "."
        whole == IF "." \in Range(str)
                 THEN SubSeq(str, 1, Len(str) - Len(AfterFirst(str, ".")) - 1)
                 ELSE str
        frac == IF "." \in Range(str) THEN AfterFirst(str, ".") ELSE <<>>
        frac2 == SubSeq(frac \o <<"0", "0">>, 1, 2)
    IN  100 * DigitsValue(whole) + DigitsValue(frac2)

\* float(str) has a non-zero digit after the second decimal
HasSubCent(str) ==
    LET frac == IF "." \in Range(str) THEN AfterFirst(str, ".") ELSE <<>>
    IN  \E k \in DOMAIN frac : k > 2 /\ frac[k] # "0"

\* _clean_price: the price in cents, 0 when the string is rejected
CleanPrice(price_str) ==
    IF price_str = <<>> THEN 0
    ELSE LET cleaned == NormalizeSeparators(SelectSeq(price_str, KeepPriceChar))
         IN  IF ~IsFloat(cleaned) THEN 0
             ELSE LET cents == FloatCents(cleaned)
                  IN  IF /\ cents >= ITEM_PRICE_MIN
                         /\ \/ cents < ITEM_PRICE_MAX
                            \/ cents = ITEM_PRICE_MAX /\ ~HasSubCent(cleaned)
                      THEN cents ELSE 0

-----------------------------------------------------------------------------
(* ReceiptParser._is_valid_item_name (receipt_parser.py) *)

\* the entries of SKIP_WORDS that a lower-cased Latin name can contain; an entry
\* with a capital letter is never a substring of the normalized name
SKIP_WORDS ==
    <<<<"t", "o", "t", "a", "l">>,
      <<"t", "a", "x">>,
      <<"s", "u", "b", "t", "o", "t", "a", "l">>,
      <<"c", "a", "s", "h">>,
      <<"c", "h", "a", "n", "g", "e">>,
      <<"c", "a", "r", "d">>,
      <<"r", "e", "c", "e", "i", "p", "t">>,
      <<"i", "n", "v", "o", "i", "c", "e">>,
      <<"d", "a", "t", "e">>,
      <<"t", "i", "m", "e">>,
      <<"c", "a", "s", "h", "i", "e", "r">>,
      <<"t", "h", "a", "n", "k">>>>

\* _normalize_text
NormalizeText(s) ==
    LET collapsed == CollapseSpaces(Strip(Lower(s)))
        subbed == [k \in DOMAIN collapsed |->
                     IF IsWordChar(collapsed[k]) \/ collapsed[k] = " "
                     THEN collapsed[k] ELSE " "]
    IN  Strip(subbed)

\* re.sub(r'[\d\s\.\,\-]', '', name)
KeepNameChar(c) == ~(c \in Digits \/ c = " " \/ c = "." \/ c = "," \/ c = "-")

\* _is_valid_item_name
IsValidItemName(name) ==
    /\ Len(Strip(name)) >= 2
    /\ LET normalized == NormalizeText(name)
       IN  \A k \in DOMAIN SKIP_WORDS : ~Contains(normalized, SKIP_WORDS[k])
    /\ \E k \in DOMAIN name : IsLetter(name[k])
    /\ Len(SelectSeq(name, KeepNameChar)) >= 2

-----------------------------------------------------------------------------
(* The regular expressions of receipt_parser.py, matched as re.search does. *)
(* A string is a sequence of characters; positions count from 1, and a      *)
(* position of Len + 1 is the end of the string. The alphabet is ASCII and  *)
(* the letters of "Кафе": the Cyrillic alternatives of a pattern match none *)
(* of them.                                                                 *)

\* \s
WhiteSpace == {" ", "\n"}

\* [\d,\.]
PriceChars == Digits \cup {",", "."}

\* [xх×] under re.IGNORECASE
QtyMarks == {"x", "X"}

\* [-–]
Dashes == {"-"}

\* str.upper() of one character
UpperChar(c) ==
    IF c \in CyrillicLower
    THEN CASE c = "#k" -> "#K" [] c = "#a" -> "#A" [] c = "#f" -> "#F"
           [] c = "#e" -> "#E"
    ELSE IF c \notin LowerLetters THEN c
    ELSE CASE c = "a" -> "A" [] c = "b" -> "B" [] c = "c" -> "C" [] c = "d" -> "D"
           [] c = "e" -> "E" [] c = "f" -> "F" [] c = "g" -> "G" [] c = "h" -> "H"
           [] c = "i" -> "I" [] c = "j" -> "J" [] c = "k" -> "K" [] c = "l" -> "L"
           [] c = "m" -> "M" [] c = "n" -> "N" [] c = "o" -> "O" [] c = "p" -> "P"
           [] c = "q" -> "Q" [] c = "r" -> "R" [] c = "s" -> "S" [] c = "t" -> "T"
           [] c = "u" -> "U" [] c = "v" -> "V" [] c = "w" -> "W" [] c = "x" -> "X"
           [] c = "y" -> "Y" [] c = "z" -> "Z"

\* str.upper()
Upper(str) == [k \in DOMAIN str |-> UpperChar(str[k])]

RECURSIVE RunLen(_, _, _)
\* the length of the longest run of characters of class that starts at p
RunLen(str, p, class) ==
    IF p <= Len(str) /\ str[p] \in class THEN 1 + RunLen(str, p + 1, class) ELSE 0

\* the position after the longest run of characters of class that starts at p
SkipRun(str, p, class) == p + RunLen(str, p, class)

\* the character at p is in class
CharIn(str, p, class) == p <= Len(str) /\ str[p] \in class

\* the run of characters of class that starts at p
RunAt(str, p, class) == SubSeq(str, p, p + RunLen(str, p, class) - 1)

\* word, written in capitals, occurs in str at p, letter case ignored
MatchesAt(str, p, word) ==
    /\ p + Len(word) - 1 <= Len(str)
    /\ \A k \in 1..Len(word) : UpperChar(str[p + k - 1]) = word[k]

\* word occurs in str at p
OccursAt(str, p, word) ==
    /\ p + Len(word) - 1 <= Len(str)
    /\ \A k \in 1..Len(word) : str[p + k - 1] = word[k]

SetMin(S) == CHOOSE m \in S : \A n \in S : m <= n

SetMax(S) == CHOOSE m \in S : \A n \in S : n <= m

NoMatch == [matched |-> FALSE]

\* (?:лв|Г|Б|BGN|\$|USD|€|EUR) in ASCII
CURRENCY_MARKS ==
    {<<"B", "G", "N">>, <<"$">>, <<"U", "S", "D">>, <<"E", "U", "R">>}

\* \s*(?:лв|Г|Б|BGN|\$|USD|€|EUR)?\s*$ matches at p
TrailerAt(line, p) ==
    LET c == SkipRun(line, p, WhiteSpace)
    IN  \/ c = Len(line) + 1
        \/ \E mark \in CURRENCY_MARKS :
              /\ MatchesAt(line, c, mark)
              /\ SkipRun(line, c + Len(mark), WhiteSpace) = Len(line) + 1

\* any(word in line.upper() for word in ['ОБЩО:', 'TOTAL:', 'СУМА:', 'СМЕТКА'])
IsHeaderLine(line) == Contains(Upper(line), <<"T", "O", "T", "A", "L", ":">>)

\* line 130 after group 1: \s*[xх×](\d+)\s*[-\s]*([\d,\.]+) at p. \d+ is
\* greedy and gives digits back until a price can follow it.
QtyRest(line, p) ==
    LET x == SkipRun(line, p, WhiteSpace)
        d == x + 1
        n == RunLen(line, d, Digits)
        PriceAt(k) == SkipRun(line, d + k, WhiteSpace \cup Dashes)
        ks == {k \in 1..n : RunLen(line, PriceAt(k), PriceChars) >= 1}
    IN  IF ~CharIn(line, x, QtyMarks) \/ ks = {} THEN NoMatch
        ELSE [matched |-> TRUE,
              quantity |-> SubSeq(line, d, d + SetMax(ks) - 1),
              price |-> RunAt(line, PriceAt(SetMax(ks)), PriceChars)]

\* line 130, qty_match. A match that starts later in the line also matches
\* from the first character with a longer group 1, so the leftmost match
\* starts there; the lazy group 1 ends at the first place the rest matches.
QtyMatch(line) ==
    LET es == {e \in 1..Len(line) : QtyRest(line, e + 1).matched}
    IN  IF es = {} THEN NoMatch
        ELSE LET m == QtyRest(line, SetMin(es) + 1)
             IN  [matched |-> TRUE, name |-> SubSeq(line, 1, SetMin(es)),
                  quantity |-> m.quantity, price |-> m.price]

\* lines 151 and 195 after the name group: \s*[-–]\s*([\d,\.]+) at p
DashRest(line, p) ==
    LET d == SkipRun(line, p, WhiteSpace)
        q == SkipRun(line, d + 1, WhiteSpace)
    IN  IF CharIn(line, d, Dashes) /\ RunLen(line, q, PriceChars) >= 1
        THEN [matched |-> TRUE, price |-> RunAt(line, q, PriceChars)]
        ELSE NoMatch

\* line 151, num_item_match: ^(\d+)\s+(.+?)\s*[-–]\s*([\d,\.]+). \s+ takes
\* every space; with fewer it can only match a blank name, which line 158
\* rejects as no match is rejected.
NumItemMatch(line) ==
    LET n == RunLen(line, 1, Digits)
        w == RunLen(line, n + 1, WhiteSpace)
        g == n + w + 1
        es == {e \in g..Len(line) : DashRest(line, e + 1).matched}
    IN  IF n = 0 \/ w = 0 \/ es = {} THEN NoMatch
        ELSE [matched |-> TRUE, quantity |-> SubSeq(line, 1, n),
              name |-> SubSeq(line, g, SetMin(es)),
              price |-> DashRest(line, SetMin(es) + 1).price]

\* line 172 after group 1: \s+(\d+)\s*[xх×]\s*([\d,\.]+)\s+([\d,\.]+) at p
TraditionalRest(line, p) ==
    LET d == SkipRun(line, p, WhiteSpace)
        x == SkipRun(line, SkipRun(line, d, Digits), WhiteSpace)
        u == SkipRun(line, x + 1, WhiteSpace)
        s == SkipRun(line, u, PriceChars)
        t == SkipRun(line, s, WhiteSpace)
    IN  IF /\ d > p /\ RunLen(line, d, Digits) >= 1
           /\ CharIn(line, x, QtyMarks)
           /\ s > u /\ t > s /\ RunLen(line, t, PriceChars) >= 1
        THEN [matched |-> TRUE, quantity |-> RunAt(line, d, Digits),
              unit_price |-> RunAt(line, u, PriceChars),
              price |-> RunAt(line, t, PriceChars)]
        ELSE NoMatch

\* line 172, traditional_match
TraditionalMatch(line) ==
    LET es == {e \in 1..Len(line) : TraditionalRest(line, e + 1).matched}
    IN  IF es = {} THEN NoMatch
        ELSE LET m == TraditionalRest(line, SetMin(es) + 1)
             IN  [matched |-> TRUE, name |-> SubSeq(line, 1, SetMin(es)),
                  quantity |-> m.quantity, unit_price |-> m.unit_price,
                  price |-> m.price]

\* line 195, simple_match: ^(.+?)\s*[-–]\s*([\d,\.]+)
SimpleMatch(line) ==
    LET es == {e \in 1..Len(line) : DashRest(line, e + 1).matched}
    IN  IF es = {} THEN NoMatch
        ELSE [matched |-> TRUE, name |-> SubSeq(line, 1, SetMin(es)),
              price |-> DashRest(line, SetMin(es) + 1).price]

\* line 214 after group 1: \s+([\d,\.]+)\s*(?:...)?\s*$ at p
NoDashRest(line, p) ==
    LET q == SkipRun(line, p, WhiteSpace)
        s == SkipRun(line, q, PriceChars)
    IN  IF q > p /\ s > q /\ TrailerAt(line, s)
        THEN [matched |-> TRUE, price |-> RunAt(line, q, PriceChars)]
        ELSE NoMatch

\* line 214, no_dash_match
NoDashMatch(line) ==
    LET es == {e \in 1..Len(line) : NoDashRest(line, e + 1).matched}
    IN  IF es = {} THEN NoMatch
        ELSE [matched |-> TRUE, name |-> SubSeq(line, 1, SetMin(es)),
              price |-> NoDashRest(line, SetMin(es) + 1).price]

-----------------------------------------------------------------------------
(* ReceiptItem (data_models.py) and ReceiptParser._extract_items_from_line. *)
(* Prices are cents; a float quotient is modelled by its whole cents.       *)

FloatDiv(a, n) == a \div n

\* ReceiptItem.__post_init__ divides by a quantity of 0
PostInitRaises(quantity, unit_price, price) ==
    unit_price = 0 /\ price > 0 /\ quantity = 0

\* ReceiptItem(id, name, quantity, unit_price, price), __post_init__ included
ReceiptItem(id, name, quantity, unit_price, price) ==
    [id |-> id, name |-> name, quantity |-> quantity,
     unit_price |-> IF unit_price = 0 /\ price > 0 /\ quantity # 0
                    THEN FloatDiv(price, quantity) ELSE unit_price,
     price |-> price, assigned_to |-> <<>>]

\* what the construction of one item gives: the item, or the exception
Construct(id, name, quantity, unit_price, price) ==
    IF PostInitRaises(quantity, unit_price, price)
    THEN [raises |-> TRUE, items |-> <<>>]
    ELSE [raises |-> FALSE,
          items |-> <<ReceiptItem(id, name, quantity, unit_price, price)>>]

NoItems == [raises |-> FALSE, items |-> <<>>]

\* abs(expected_total - total_price) < 0.5, in cents
CONSISTENCY_TOLERANCE == 50

\* _extract_items_from_line; id is the identifier _generate_item_id returns
ExtractItemsFromLine(raw, id) ==
    LET line == Strip(raw)
        m1 == QtyMatch(line)
        m2 == NumItemMatch(line)
        m3 == TraditionalMatch(line)
        m4 == SimpleMatch(line)
        m5 == NoDashMatch(line)
        Accepted(m) == IsValidItemName(Strip(m.name)) /\ CleanPrice(m.price) > 0
        WithQuantity(m) ==
            LET quantity == DigitsValue(m.quantity)
                total_price == CleanPrice(m.price)
                unit_price == IF quantity > 0 THEN FloatDiv(total_price, quantity)
                              ELSE total_price
            IN  Construct(id, Strip(m.name), quantity, unit_price, total_price)
        Consistent(m) ==
            Abs(DigitsValue(m.quantity) * CleanPrice(m.unit_price)
                  - CleanPrice(m.price)) < CONSISTENCY_TOLERANCE
        Single(m) ==
            Construct(id, Strip(m.name), 1, CleanPrice(m.price), CleanPrice(m.price))
    IN  IF line = <<>> \/ IsHeaderLine(line) THEN NoItems
        ELSE IF m1.matched /\ Accepted(m1) THEN WithQuantity(m1)
        ELSE IF m2.matched /\ Accepted(m2) THEN WithQuantity(m2)
        ELSE IF m3.matched /\ Accepted(m3) /\ Consistent(m3)
        THEN Construct(id, Strip(m3.name), DigitsValue(m3.quantity),
                       CleanPrice(m3.unit_price), CleanPrice(m3.price))
        ELSE IF m4.matched /\ Accepted(m4) THEN Single(m4)
        ELSE IF m5.matched /\ Accepted(m5) THEN Single(m5)
        ELSE NoItems

\* 1.0 <= price <= 500 of the fallback pass, in cents
FALLBACK_PRICE_MIN == 100

FALLBACK_PRICE_MAX == 50000

\* re.sub(r'\s*[-–]\s*$', '', name_part) of a stripped string
DropTrailingDash(name_part) ==
    IF name_part # <<>> /\ name_part[Len(name_part)] \in Dashes
    THEN RStrip(SubSeq(name_part, 1, Len(name_part) - 1))
    ELSE name_part

\* the body of the fallback loop of parse (lines 298-321) for one line
FallbackItems(raw, id) ==
    LET line == Strip(raw)
        starts == {s \in 1..Len(line) :
                     /\ CharIn(line, s, PriceChars)
                     /\ TrailerAt(line, SkipRun(line, s, PriceChars))}
        start == SetMin(starts)
        price == CleanPrice(RunAt(line, start, PriceChars))
        before == Strip(SubSeq(line, 1, start - 1))
        unnumbered ==
            Strip(SubSeq(before,
                         SkipRun(before, 1, Digits \cup WhiteSpace \cup {"-", "*"}),
                         Len(before)))
        name_part == Strip(DropTrailingDash(unnumbered))
    IN  IF line = <<>> \/ IsHeaderLine(line) \/ starts = {} THEN NoItems
        ELSE IF /\ price >= FALLBACK_PRICE_MIN /\ price <= FALLBACK_PRICE_MAX
                /\ Len(name_part) > 2 /\ IsValidItemName(name_part)
        THEN Construct(id, name_part, 1, price, price)
        ELSE NoItems

-----------------------------------------------------------------------------
(* ReceiptParser._similarity_score and _deduplicate_by_line_similarity *)

RECURSIVE CommonLen(_, _, _, _, _, _)
\* the length of the block a[i..] = b[j..] inside a[..ahi-1] and b[..bhi-1]
CommonLen(a, b, i, j, ahi, bhi) ==
    IF i < ahi /\ j < bhi /\ a[i] = b[j]
    THEN 1 + CommonLen(a, b, i + 1, j + 1, ahi, bhi) ELSE 0

\* SequenceMatcher.find_longest_match: the longest block, of the longest the
\* one that starts earliest in a, and of those the earliest in b; (alo, blo, 0)
\* when no character is common
LongestMatch(a, b, alo, ahi, blo, bhi) ==
    LET starts == {s \in (alo..(ahi - 1)) \X (blo..(bhi - 1)) : a[s[1]] = b[s[2]]}
        size == [s \in starts |-> CommonLen(a, b, s[1], s[2], ahi, bhi)]
        longest == SetMax({size[s] : s \in starts})
        i == SetMin({s[1] : s \in {t \in starts : size[t] = longest}})
        j == SetMin({s[2] : s \in {t \in starts : size[t] = longest /\ t[1] = i}})
    IN  IF starts = {} THEN [i |-> alo, j |-> blo, size |-> 0]
        ELSE [i |-> i, j |-> j, size |-> longest]

RECURSIVE MatchedChars(_, _, _, _, _, _)
\* the sum of the sizes of SequenceMatcher.get_matching_blocks
MatchedChars(a, b, alo, ahi, blo, bhi) ==
    IF alo >= ahi \/ blo >= bhi THEN 0
    ELSE LET m == LongestMatch(a, b, alo, ahi, blo, bhi)
         IN  IF m.size = 0 THEN 0
             ELSE m.size
                  + MatchedChars(a, b, alo, m.i, blo, m.j)
                  + MatchedChars(a, b, m.i + m.size, ahi, m.j + m.size, bhi)

\* SequenceMatcher(None, a, b).ratio() = 2 * matched / (len(a) + len(b)),
\* compared as a fraction: ratio > percent / 100, or >= when orEqual
RatioExceeds(a, b, percent, orEqual) ==
    LET matched == MatchedChars(a, b, 1, Len(a) + 1, 1, Len(b) + 1)
        length == Len(a) + Len(b)
    IN  IF length = 0 THEN TRUE
        ELSE IF orEqual THEN 200 * matched >= percent * length
        ELSE 200 * matched > percent * length

\* similarity > 0.95 of line 102
LINE_SIMILARITY_PERCENT == 95

\* seen_similar[-10:] of line 100
RECENT_LINES == 10

\* _similarity_score(line, seen_line) > 0.95
SimilarLines(line, seen_line) ==
    RatioExceeds(Lower(line), Lower(seen_line), LINE_SIMILARITY_PERCENT, FALSE)

\* a window of one line: the last element of a sequence
LastOne(s, n) == IF s = <<>> THEN <<>> ELSE <<s[Len(s)]>>

\* the last n elements of a sequence
LastN(s, n) == SubSeq(s, IF Len(s) > n THEN Len(s) - n + 1 ELSE 1, Len(s))

RECURSIVE DeduplicateLoop(_, _)
\* the loop of _deduplicate_by_line_similarity; seen_exact and seen_similar
\* hold the lines of unique_lines
DeduplicateLoop(lines, unique_lines) ==
    IF lines = <<>> THEN unique_lines
    ELSE LET line == Strip(Head(lines))
             recent == LastN(unique_lines, RECENT_LINES)
         IN  IF \/ line = <<>>
                \/ line \in Range(unique_lines)
                \/ \E k \in DOMAIN recent : SimilarLines(line, recent[k])
             THEN DeduplicateLoop(Tail(lines), unique_lines)
             ELSE DeduplicateLoop(Tail(lines), Append(unique_lines, line))

\* _deduplicate_by_line_similarity, the text as the list of its lines
DeduplicateByLineSimilarity(lines) == DeduplicateLoop(lines, <<>>)

RECURSIVE Join(_)
\* '\n'.join(lines)
Join(lines) ==
    IF lines = <<>> THEN <<>>
    ELSE IF Len(lines) = 1 THEN Head(lines)
    ELSE Head(lines) \o <<"\n">> \o Join(Tail(lines))

-----------------------------------------------------------------------------
(* ReceiptParser._find_total and _detect_currency *)

\* PATTERNS['bg_total'] and PATTERNS['en_total'] of constants.py in ASCII:
\* the keywords, and whether \$? stands before the number
BG_TOTAL == [keywords |-> {<<"T", "O", "T", "A", "L">>}, dollar |-> FALSE]

EN_TOTAL ==
    [keywords |-> {<<"T", "O", "T", "A", "L">>,
                   <<"A", "M", "O", "U", "N", "T">>,
                   <<"S", "U", "M">>,
                   <<"S", "U", "B", "T", "O", "T", "A", "L">>},
     dollar |-> TRUE]

\* the list _find_total iterates over
TOTAL_SUM_PATTERNS == <<BG_TOTAL, EN_TOTAL>>

\* pattern matches at p: keyword, [:\s]*, \$? and the number; txt is in
\* capitals
TotalMatchAt(txt, p, pattern) ==
    LET words == {w \in pattern.keywords : OccursAt(txt, p, w)}
        word == CHOOSE w \in words : TRUE
        c == SkipRun(txt, p + Len(word), WhiteSpace \cup {":"})
        n == IF pattern.dollar /\ CharIn(txt, c, {"$"}) THEN c + 1 ELSE c
    IN  IF words = {} THEN NoMatch
        ELSE IF RunLen(txt, n, PriceChars) = 0 THEN NoMatch
        ELSE [matched |-> TRUE, group1 |-> RunAt(txt, n, PriceChars),
              end |-> SkipRun(txt, n, PriceChars)]

RECURSIVE FirstTotal(_, _, _)
\* the inner loop of _find_total over re.finditer(pattern, text) from p:
\* the first match whose number is a price, 0 when there is none
FirstTotal(txt, p, pattern) ==
    IF p > Len(txt) THEN 0
    ELSE LET m == TotalMatchAt(txt, p, pattern)
         IN  IF ~m.matched THEN FirstTotal(txt, p + 1, pattern)
             ELSE LET price == CleanPrice(m.group1)
                  IN  IF price > 0 THEN price ELSE FirstTotal(txt, m.end, pattern)

RECURSIVE FindTotalIn(_, _)
FindTotalIn(txt, patterns) ==
    IF patterns = <<>> THEN 0
    ELSE LET total_found == FirstTotal(txt, 1, Head(patterns))
         IN  IF total_found > 0 THEN total_found
             ELSE FindTotalIn(txt, Tail(patterns))

\* _find_total; re.IGNORECASE is matching the text in capitals, which leaves
\* the number of group 1 as it is
FindTotal(txt) == FindTotalIn(Upper(txt), TOTAL_SUM_PATTERNS)

RECURSIVE CountMarks(_, _, _)
\* len(re.findall(marks, text)) from p
CountMarks(txt, p, marks) ==
    IF p > Len(txt) THEN 0
    ELSE LET here == {m \in marks : OccursAt(txt, p, m)}
         IN  IF here = {} THEN CountMarks(txt, p + 1, marks)
             ELSE 1 + CountMarks(txt, p + Len(CHOOSE m \in here : TRUE), marks)

\* _detect_currency; re.IGNORECASE is counting in the text in capitals
DetectCurrency(txt) ==
    LET upper == Upper(txt)
        bg_indicators == CountMarks(upper, 1, {<<"B", "G", "N">>})
        usd_indicators == CountMarks(upper, 1, {<<"$">>, <<"U", "S", "D">>})
        eur_indicators == CountMarks(upper, 1, {<<"E", "U", "R">>})
    IN  IF bg_indicators > Max(usd_indicators, eur_indicators) THEN "BGN"
        ELSE IF usd_indicators > eur_indicators THEN "USD"
        ELSE IF eur_indicators > 0 THEN "EUR"
        ELSE "BGN"

-----------------------------------------------------------------------------
(* ReceiptParser.parse (receipt_parser.py), Receipt.add_tip and             *)
(* Receipt.calculate_total (data_models.py)                                 *)

RECURSIVE Flatten(_)
\* all_items.extend(result) over the results in line order
Flatten(results) ==
    IF results = <<>> THEN <<>>
    ELSE Head(results).items \o Flatten(Tail(results))

\* lines 284-289 of parse: what executor.map yields for the lines, in order
ExtractAll(lines) == [k \in DOMAIN lines |-> ExtractItemsFromLine(lines[k], k)]

\* lines 291-321 of parse: the items of the patterns, or of the fallback pass
\* when the patterns found none
FoundItems(lines, results) ==
    IF Flatten(results) = <<>>
    THEN Flatten([k \in DOMAIN lines |-> FallbackItems(lines[k], k)])
    ELSE Flatten(results)

\* parse without lines 326-327: the total of the text and nothing else
TotalOfText(found, found_total) == found_total

\* lines 323-327 of parse: the total of the text, or calculate_total()
TotalOf(found, found_total) ==
    IF found_total = 0 /\ found # <<>> THEN SumPrices(found) ELSE found_total

\* parser.parse(text). An exception of a worker leaves the new Receipt of
\* line 267 with the currency of line 277.
Parse ==
    \E lines \in {DeduplicateByLineSimilarity(text)} :
    \E cleaned_text \in {Join(lines)} :
    \E results \in {ExtractAll(lines)} :
    \E found \in {FoundItems(lines, results)} :
    \E found_total \in {FindTotal(cleaned_text)} :
        /\ raised' = \E k \in DOMAIN results : results[k].raises
        /\ items' = IF raised' THEN <<>> ELSE found
        /\ total' = IF raised' THEN 0 ELSE TotalOf(found, found_total)
        /\ original_total' = total'
        /\ tip_amount' = 0
        /\ currency' = DetectCurrency(cleaned_text)
        /\ last' = "parse"
        /\ UNCHANGED <<splitterVars, parserVars>>

\* receipt.add_tip(amount)
AddTip(amount) ==
    /\ tip_amount' = amount
    /\ total' = original_total + amount
    /\ raised' = FALSE
    /\ last' = "add_tip"
    /\ UNCHANGED <<items, original_total, currency, splitterVars, parserVars>>

\* receipt.calculate_total()
CalculateTotal ==
    /\ total' = SumPrices(items) + tip_amount
    /\ original_total' = IF original_total = 0 THEN total' - tip_amount
                         ELSE original_total
    /\ raised' = FALSE
    /\ last' = "calculate_total"
    /\ UNCHANGED <<items, tip_amount, currency, splitterVars, parserVars>>

-----------------------------------------------------------------------------
(* The receipts parse is given: at most MaxLines lines of the shapes the    *)
(* five patterns are written for, a total line, a line only the fallback    *)
(* pass reads, and a line repeated with one more space.                     *)

MaxLines == 2

Tea == <<"T", "e", "a">>

Tax == <<"T", "a", "x">>

\* "Tea x2 7.00", "2 Tea - 7.00", "Tea 2 x 3.50 7.00", "Tea - 7.00" and
\* "Tea 7.00" are the five shapes; the others vary a quantity, a unit price,
\* a price, a name or the spacing of one of them
ReceiptLines ==
    {Tea \o <<" ", "x", "2", " ", "7", ".", "0", "0">>,
     Tea \o <<" ", "x", "0", " ", "0", ".", "3", "0">>,
     <<"2", " ">> \o Tea \o <<" ", "-", " ", "7", ".", "0", "0">>,
     Tea \o <<" ", "2", " ", "x", " ", "3", ".", "5", "0", " ", "7", ".", "0", "0">>,
     Tea \o <<" ", "2", " ", "x", " ", "3", ".", "5", "0", " ", " ", "7", ".", "0", "0">>,
     Tea \o <<" ", "0", " ", "x", " ", "3", ".", "5", "0", " ", "7", ".", "0", "0">>,
     Tea \o <<" ", "2", " ", "x", " ", "0", " ", "0", ".", "3", "0">>,
     Tea \o <<" ", "0", " ", "x", " ", "0", " ", "0", ".", "3", "0">>,
     Tea \o <<" ", "-", " ", "7", ".", "0", "0">>,
     Tea \o <<" ", "7", ".", "0", "0">>,
     Tea \o <<"7", ".", "0", "0">>,
     Tax \o <<" ", "7", ".", "0", "0">>,
     <<"T", "O", "T", "A", "L", ":", " ", "7", ".", "0", "0">>,
     <<>>}

RECURSIVE TextsOfLength(_)
TextsOfLength(n) ==
    IF n = 0 THEN {<<>>}
    ELSE {Append(t, l) : t \in TextsOfLength(n - 1), l \in ReceiptLines}

Texts == UNION {TextsOfLength(n) : n \in 0..MaxLines}

\* ReceiptParser.__init__ and the text handed to parse
InitParse ==
    /\ text \in Texts
    /\ items = <<>>
    /\ total = 0
    /\ original_total = 0
    /\ tip_amount = 0
    /\ currency = "BGN"
    /\ people = <<>>
    /\ balances = EmptyDict
    /\ settlements = <<>>
    /\ merged = <<>>
    /\ deduplicated = <<>>
    /\ call = "none"
    /\ futures = <<>>
    /\ collected = <<>>
    /\ cli = NoSession
    /\ exported = NothingExported
    /\ raised = FALSE
    /\ last = "init"

NextParse ==
    \/ Parse
    \/ \E amount \in 0..TipCents : AddTip(amount)
    \/ CalculateTotal

SpecParse == InitParse /\ [][NextParse]_vars

-----------------------------------------------------------------------------
(* ReceiptParser._normalize_item_name, _are_items_similar and               *)
(* _merge_duplicate_items (improved_version_split.py)                       *)

\* re.sub(r'[^\w\s\-а-я]', '', normalized) keeps these characters
KeepNormalizedChar(c) == IsWordChar(c) \/ c \in WhiteSpace \/ c = "-"

\* _normalize_item_name
NormalizeItemName(name) ==
    Strip(SelectSeq(CollapseSpaces(Strip(Lower(name))), KeepNormalizedChar))

\* name_threshold of _are_items_similar, in percent
NAME_THRESHOLD == 85

\* price_threshold of _are_items_similar, in cents
PRICE_THRESHOLD == 1

\* _are_items_similar(item1, item2)
AreItemsSimilar(item1, item2) ==
    LET name1 == NormalizeItemName(item1.name)
        name2 == NormalizeItemName(item2.name)
        price_match == Abs(item1.price - item2.price) < PRICE_THRESHOLD
    IN  \/ name1 = name2 /\ price_match
        \/ RatioExceeds(Lower(name1), Lower(name2), NAME_THRESHOLD, TRUE) /\ price_match
        \/ /\ Len(name1) > 3 /\ Len(name2) > 3
           /\ Contains(name2, name1) \/ Contains(name1, name2)
           /\ price_match

RECURSIVE AppendMissing(_, _)
\* the loop of lines 335-337: the persons of more not yet in assigned_to
AppendMissing(assigned_to, more) ==
    IF more = <<>> THEN assigned_to
    ELSE IF Head(more) \in Range(assigned_to) THEN AppendMissing(assigned_to, Tail(more))
    ELSE AppendMissing(Append(assigned_to, Head(more)), Tail(more))

\* Absorb without line 333: the quantity of item2 is lost
AbsorbWithoutQuantity(merged_item, item2) ==
    [merged_item EXCEPT
        !.price = merged_item.unit_price * merged_item.quantity,
        !.assigned_to = AppendMissing(merged_item.assigned_to, item2.assigned_to)]

\* lines 333-337: item2 absorbed into merged_item; the price is computed from
\* the unit price
Absorb(merged_item, item2) ==
    [merged_item EXCEPT
        !.quantity = merged_item.quantity + item2.quantity,
        !.price = merged_item.unit_price * (merged_item.quantity + item2.quantity),
        !.assigned_to = AppendMissing(merged_item.assigned_to, item2.assigned_to)]

RECURSIVE MergeInner(_, _, _, _, _)
\* the loop of line 328 from j: the merged item and the indices processed
MergeInner(list, i, j, merged_item, processed) ==
    IF j > Len(list) THEN [item |-> merged_item, processed |-> processed]
    ELSE IF j \notin processed /\ AreItemsSimilar(list[i], list[j])
    THEN MergeInner(list, i, j + 1, Absorb(merged_item, list[j]), processed \cup {j})
    ELSE MergeInner(list, i, j + 1, merged_item, processed)

\* the copy of item1 of lines 319-326, __post_init__ included
CopyItem(item1) ==
    [item1 EXCEPT
        !.unit_price = IF item1.unit_price = 0 /\ item1.price > 0 /\ item1.quantity # 0
                       THEN FloatDiv(item1.price, item1.quantity)
                       ELSE item1.unit_price]

RECURSIVE MergeOuter(_, _, _, _)
\* the loop of line 315 from i
MergeOuter(list, i, out, processed) ==
    IF i > Len(list) THEN out
    ELSE IF i \in processed THEN MergeOuter(list, i + 1, out, processed)
    ELSE LET inner == MergeInner(list, i, i + 1, CopyItem(list[i]), processed)
         IN  MergeOuter(list, i + 1, Append(out, inner.item),
                        inner.processed \cup {i})

\* _merge_duplicate_items(items)
MergeDuplicateItems(list) == MergeOuter(list, 1, <<>>, {})

\* merged = parser._merge_duplicate_items(items)
Merge ==
    /\ merged' = MergeDuplicateItems(items)
    /\ raised' = FALSE
    /\ last' = "merge"
    /\ UNCHANGED <<items, total, original_total, tip_amount, currency,
                   splitterVars, text, deduplicated, poolVars, cliVars>>

-----------------------------------------------------------------------------
(* The lists _merge_duplicate_items is given: at most MaxMergeItems items,  *)
(* as ReceiptItem constructs them.                                          *)

MaxMergeItems == 3

Soup == <<"S", "o", "u", "p">>

SoupDot == <<"s", "o", "u", "p", ".">>

Soups == <<"S", "o", "u", "p", "s">>

Sour == <<"S", "o", "u", "r">>

\* an item as the parse of improved_version_split.py constructs it; its unit
\* price is the third number of the line, whatever the line total
MergeItem(name, quantity, unit_price, price, assigned_to) ==
    [id |-> 0, name |-> name, quantity |-> quantity, unit_price |-> unit_price,
     price |-> price, assigned_to |-> assigned_to]

MergeItems ==
    {MergeItem(n, 1, 500, 500, <<>>) : n \in {Soup, SoupDot, Soups, Sour}}
    \cup {MergeItem(Soup, 1, 400, 500, <<>>),
          MergeItem(Soup, 2, 500, 1000, <<>>),
          MergeItem(Sour, 2, 500, 1000, <<>>),
          MergeItem(Soup, 1, 500, 500, <<"A">>),
          MergeItem(Soups, 1, 500, 500, <<"B">>)}

RECURSIVE MergeListsOfLength(_)
MergeListsOfLength(n) ==
    IF n = 0 THEN {<<>>}
    ELSE {Append(l, [it EXCEPT !.id = n]) :
              l \in MergeListsOfLength(n - 1), it \in MergeItems}

InitMerge ==
    /\ items \in UNION {MergeListsOfLength(n) : n \in 0..MaxMergeItems}
    /\ merged = <<>>
    /\ deduplicated = <<>>
    /\ call = "none"
    /\ futures = <<>>
    /\ collected = <<>>
    /\ cli = NoSession
    /\ exported = NothingExported
    /\ total = 0
    /\ original_total = 0
    /\ tip_amount = 0
    /\ currency = "BGN"
    /\ people = <<>>
    /\ balances = EmptyDict
    /\ settlements = <<>>
    /\ text = <<>>
    /\ raised = FALSE
    /\ last = "init"

NextMerge == Merge

SpecMerge == InitMerge /\ [][NextMerge]_vars

-----------------------------------------------------------------------------
(* ReceiptParser._detect_currency applied to the texts made of at most      *)
(* MaxMarks currency marks and neutral words, one on each line              *)

MaxMarks == 3

\* the state of a receipt and a splitter no function has touched
Untouched ==
    /\ items = <<>>
    /\ total = 0
    /\ original_total = 0
    /\ tip_amount = 0
    /\ currency = "BGN"
    /\ people = <<>>
    /\ balances = EmptyDict
    /\ settlements = <<>>
    /\ merged = <<>>
    /\ deduplicated = <<>>
    /\ call = "none"
    /\ futures = <<>>
    /\ collected = <<>>
    /\ cli = NoSession
    /\ exported = NothingExported
    /\ raised = FALSE
    /\ last = "init"

\* "BGN", "$", "USD", "EUR", "eur" and the neutral "Tea"
CurrencyWords ==
    {<<"B", "G", "N">>, <<"$">>, <<"U", "S", "D">>, <<"E", "U", "R">>,
     <<"e", "u", "r">>, Tea}

RECURSIVE CurrencyTextsOfLength(_)
CurrencyTextsOfLength(n) ==
    IF n = 0 THEN {<<>>}
    ELSE {Append(t, w) : t \in CurrencyTextsOfLength(n - 1), w \in CurrencyWords}

InitCurrency ==
    /\ text \in UNION {CurrencyTextsOfLength(n) : n \in 0..MaxMarks}
    /\ Untouched

\* a call of _detect_currency(text)
DetectCurrencyCall ==
    /\ currency' = DetectCurrency(Join(text))
    /\ last' = "detect_currency"
    /\ raised' = FALSE
    /\ UNCHANGED <<items, total, original_total, tip_amount, splitterVars,
                   parserVars>>

NextCurrency == DetectCurrencyCall

SpecCurrency == InitCurrency /\ [][NextCurrency]_vars

-----------------------------------------------------------------------------
(* ReceiptParser.parse applied to the texts of at most MaxTotalLines lines  *)
(* that name a total with a keyword of either pattern, an item or nothing   *)

MaxTotalLines == 3

\* "TOTAL: 7.00", "AMOUNT: 5.00", "SUM 3.00", "Total 0", "Tea 7.00" and ""
TotalLines ==
    {<<"T", "O", "T", "A", "L", ":", " ", "7", ".", "0", "0">>,
     <<"A", "M", "O", "U", "N", "T", ":", " ", "5", ".", "0", "0">>,
     <<"S", "U", "M", " ", "3", ".", "0", "0">>,
     <<"T", "o", "t", "a", "l", " ", "0">>,
     Tea \o <<" ", "7", ".", "0", "0">>,
     <<>>}

RECURSIVE TotalTextsOfLength(_)
TotalTextsOfLength(n) ==
    IF n = 0 THEN {<<>>}
    ELSE {Append(t, l) : t \in TotalTextsOfLength(n - 1), l \in TotalLines}

InitTotal ==
    /\ text \in UNION {TotalTextsOfLength(n) : n \in 0..MaxTotalLines}
    /\ Untouched

NextTotal == Parse

SpecTotal == InitTotal /\ [][NextTotal]_vars

-----------------------------------------------------------------------------
(* ReceiptParser._clean_price applied to the strings of at most MaxPriceLen *)
(* digits and separators                                                    *)

MaxPriceLen == 5

PriceAlphabet == {"0", "1", ",", "."}

RECURSIVE PriceStringsOfLength(_)
PriceStringsOfLength(n) ==
    IF n = 0 THEN {<<>>}
    ELSE {Append(s, c) : s \in PriceStringsOfLength(n - 1), c \in PriceAlphabet}

\* the text is the one string handed to _clean_price
InitPrice ==
    /\ text \in {<<s>> : s \in UNION {PriceStringsOfLength(n) : n \in 0..MaxPriceLen}}
    /\ Untouched

\* a call of _clean_price(text[1]): the price is kept in total; the except
\* clause of line 48 catches what float() raises
CleanPriceCall ==
    /\ total' = CleanPrice(text[1])
    /\ raised' = FALSE
    /\ last' = "clean_price"
    /\ UNCHANGED <<items, original_total, tip_amount, currency, splitterVars,
                   parserVars>>

NextPrice == CleanPriceCall

SpecPrice == InitPrice /\ [][NextPrice]_vars

-----------------------------------------------------------------------------
(* ReceiptParser._deduplicate_by_line_similarity applied to texts of at     *)
(* most MaxDedupLines lines, then at most MaxFillers lines unlike all       *)
(* others, then at most one line more: a line comes again at once or after  *)
(* more kept lines than the window of RECENT_LINES holds                    *)

MaxDedupLines == 2

MaxFillers == 11

\* "Tea - 7.00", the same with one more space, in capitals and with blanks
\* around it, "Tea 7.00" and ""
DedupLines ==
    {Tea \o <<" ", "-", " ", "7", ".", "0", "0">>,
     Tea \o <<" ", "-", " ", " ", "7", ".", "0", "0">>,
     <<"T", "E", "A", " ", "-", " ", "7", ".", "0", "0">>,
     <<" ">> \o Tea \o <<" ", "-", " ", "7", ".", "0", "0", " ">>,
     Tea \o <<" ", "7", ".", "0", "0">>,
     <<>>}

FillerLetters == <<"a", "b", "c", "d", "e", "f", "g", "h", "i", "j", "k", "l", "m">>

\* n lines of one letter each, all different
Fillers(n) == [k \in 1..n |-> <<FillerLetters[k]>>]

RECURSIVE DedupTextsOfLength(_)
DedupTextsOfLength(n) ==
    IF n = 0 THEN {<<>>}
    ELSE {Append(t, l) : t \in DedupTextsOfLength(n - 1), l \in DedupLines}

InitDedup ==
    /\ text \in {pre \o Fillers(n) \o post :
                    pre \in UNION {DedupTextsOfLength(m) : m \in 0..MaxDedupLines},
                    n \in 0..MaxFillers,
                    post \in DedupTextsOfLength(0) \cup DedupTextsOfLength(1)}
    /\ Untouched

\* a call of _deduplicate_by_line_similarity(text)
DeduplicateCall ==
    /\ deduplicated' = DeduplicateByLineSimilarity(text)
    /\ raised' = FALSE
    /\ last' = "deduplicate"
    /\ UNCHANGED <<items, total, original_total, tip_amount, currency,
                   splitterVars, text, merged, poolVars, cliVars>>

NextDedup == DeduplicateCall

SpecDedup == InitDedup /\ [][NextDedup]_vars

-----------------------------------------------------------------------------
(* ReceiptParser._extract_items_from_line applied to the lines made of a    *)
(* name, a count, a unit price and a price in the layouts of the five       *)
(* patterns and in the layout "name 2x3.50 7.00"                            *)

\* "Кафе"
Kafe == <<"#K", "#a", "#f", "#e">>

\* a valid Latin name, a valid Cyrillic name and a name of SKIP_WORDS
ExtractNames == {Tea, Kafe, Tax}

ExtractCounts == {<<"0">>, <<"2">>}

\* "3.50" and "0", which _clean_price rejects
ExtractUnitPrices == {<<"3", ".", "5", "0">>, <<"0">>}

\* "7.00", "0.30" and "0", which _clean_price rejects
ExtractPrices == {<<"7", ".", "0", "0">>, <<"0", ".", "3", "0">>, <<"0">>}

ExtractLines ==
    LET sp == <<" ">>
    IN  UNION {
          {n \o sp \o <<"x">> \o q \o sp \o p,
           n \o sp \o q \o <<"x">> \o u \o sp \o p,
           q \o sp \o n \o sp \o <<"-">> \o sp \o p,
           n \o sp \o q \o sp \o <<"x">> \o sp \o u \o sp \o p,
           n \o sp \o <<"-">> \o sp \o p,
           n \o sp \o p,
           n \o p} :
          n \in ExtractNames, q \in ExtractCounts, u \in ExtractUnitPrices,
          p \in ExtractPrices}

\* the text is the one line handed to _extract_items_from_line
InitExtract ==
    /\ text \in {<<line>> : line \in ExtractLines}
    /\ Untouched

\* a call of _extract_items_from_line(text[1]): the list it returns, or the
\* exception of ReceiptItem.__post_init__
ExtractCall ==
    \E result \in {ExtractItemsFromLine(text[1], 1)} :
        /\ items' = result.items
        /\ raised' = result.raises
        /\ last' = "extract"
        /\ UNCHANGED <<total, original_total, tip_amount, currency,
                       splitterVars, parserVars>>

NextExtract == ExtractCall

SpecExtract == InitExtract /\ [][NextExtract]_vars

-----------------------------------------------------------------------------
(* ReceiptParser of improved_version_split.py: _clean_price,                *)
(* _is_valid_item_name, _deduplicate_by_position and parse, which works on  *)
(* the one Receipt that __init__ created                                    *)

\* _clean_price of improved_version_split.py: every comma is a decimal point
\* and there is no range
ImprovedCleanPrice(price_str) ==
    LET kept == SelectSeq(price_str, KeepPriceChar)
        dotted == [k \in DOMAIN kept |-> IF kept[k] = "," THEN "." ELSE kept[k]]
    IN  IF IsFloat(dotted) THEN FloatCents(dotted) ELSE 0

\* the entries of ReceiptParser.SKIP_WORDS in the alphabet of the model
IMPROVED_SKIP_WORDS ==
    <<<<"T", "O", "T", "A", "L">>,
      <<"T", "A", "X">>,
      <<"S", "U", "B", "T", "O", "T", "A", "L">>,
      <<"C", "A", "S", "H">>,
      <<"C", "H", "A", "N", "G", "E">>,
      <<"C", "A", "R", "D">>,
      <<"R", "E", "C", "E", "I", "P", "T">>,
      <<"I", "N", "V", "O", "I", "C", "E">>,
      <<"D", "A", "T", "E">>,
      <<"T", "I", "M", "E">>,
      <<"C", "A", "S", "H", "I", "E", "R">>,
      <<"T", "H", "A", "N", "K">>,
      <<"#K", "#A", "#F", "#E">>>>

\* _is_valid_item_name of improved_version_split.py
ImprovedIsValidItemName(name) ==
    /\ Len(name) >= 2
    /\ \A k \in DOMAIN IMPROVED_SKIP_WORDS :
          ~Contains(Upper(name), IMPROVED_SKIP_WORDS[k])
    /\ \E k \in DOMAIN name : IsLetter(name[k])

\* PATTERNS['simple_item'] after group 1: \s+([\d,\.]+)\s*(?:лв|BGN|\$)?$ at p
ImprovedSimpleRest(line, p) ==
    LET q == SkipRun(line, p, WhiteSpace)
        s == SkipRun(line, q, PriceChars)
        c == SkipRun(line, s, WhiteSpace)
    IN  IF /\ q > p /\ s > q
           /\ \/ c = Len(line) + 1
              \/ \E mark \in {<<"B", "G", "N">>, <<"$">>} :
                    MatchesAt(line, c, mark) /\ c + Len(mark) = Len(line) + 1
        THEN [matched |-> TRUE, price |-> RunAt(line, q, PriceChars)]
        ELSE NoMatch

\* re.search(PATTERNS['simple_item'], line): the leftmost match starts at the
\* first character and its lazy group 1 ends at the first place the rest
\* matches
ImprovedSimpleMatch(line) ==
    LET es == {e \in 1..Len(line) : ImprovedSimpleRest(line, e + 1).matched}
    IN  IF es = {} THEN NoMatch
        ELSE [matched |-> TRUE, name |-> SubSeq(line, 1, SetMin(es)),
              price |-> ImprovedSimpleRest(line, SetMin(es) + 1).price]

\* lines 385-393 of parse: the item of a match of bg_item or en_item;
\* unit_price or (total_price / quantity) divides by a quantity of 0
ImprovedItemOfMatch(id, name, quantity, unit_price, total_price) ==
    IF unit_price = 0 /\ quantity = 0 THEN [raises |-> TRUE, items |-> <<>>]
    ELSE Construct(id, name, quantity,
                   IF unit_price = 0 THEN FloatDiv(total_price, quantity)
                   ELSE unit_price,
                   total_price)

\* lines 395-410 of parse: the item of simple_item, which the else clause of
\* the for loop tries when no item was built
ImprovedItemOfSimple(id, s, price) ==
    IF s.matched /\ ImprovedIsValidItemName(Strip(s.name)) /\ price > 0
    THEN Construct(id, Strip(s.name), 1, price, price)
    ELSE NoItems

\* lines 379-412 of parse for a line that bg_item and en_item match as m
ImprovedItemsOfMatch(line, id, m, total_price) ==
    IF m.matched /\ ImprovedIsValidItemName(Strip(m.name)) /\ total_price > 0
    THEN ImprovedItemOfMatch(id, Strip(m.name), DigitsValue(m.quantity),
                             ImprovedCleanPrice(m.unit_price), total_price)
    ELSE ImprovedItemOfSimple(id, ImprovedSimpleMatch(line),
                              ImprovedCleanPrice(ImprovedSimpleMatch(line).price))

\* lines 379-412 of parse for one line: PATTERNS['bg_item'] and
\* PATTERNS['en_item'] are in ASCII the pattern of traditional_match
ImprovedItemsOfLine(line, id) ==
    ImprovedItemsOfMatch(line, id, TraditionalMatch(line),
                         ImprovedCleanPrice(TraditionalMatch(line).price))

\* re.search(pattern, line): the number of the leftmost match of a total
\* pattern as _clean_price reads it, 0 when there is no match
ImprovedTotalMatch(line, pattern) ==
    LET ps == {p \in 1..Len(line) : TotalMatchAt(Upper(line), p, pattern).matched}
    IN  IF ps = {} THEN 0
        ELSE ImprovedCleanPrice(TotalMatchAt(Upper(line), SetMin(ps), pattern).group1)

\* lines 414-422 of parse for one line: the total the line sets, 0 when it
\* sets none
ImprovedTotalOfLine(line) ==
    IF ImprovedTotalMatch(line, BG_TOTAL) > 0 THEN ImprovedTotalMatch(line, BG_TOTAL)
    ELSE ImprovedTotalMatch(line, EN_TOTAL)


RECURSIVE DeduplicatePositionLoop(_, _)
\* the loop of _deduplicate_by_position; cleaned_lines and previous_lines
\* hold the same lines
DeduplicatePositionLoop(lines, previous_lines) ==
    IF lines = <<>> THEN previous_lines
    ELSE LET line == Strip(Head(lines))
             recent == LastN(previous_lines, 3)
         IN  IF \/ line = <<>>
                \/ \E k \in DOMAIN recent :
                      RatioExceeds(Lower(line), Lower(recent[k]), 90, FALSE)
             THEN DeduplicatePositionLoop(Tail(lines), previous_lines)
             ELSE DeduplicatePositionLoop(Tail(lines), Append(previous_lines, line))

\* _deduplicate_by_position(text), the text as its lines
DeduplicateByPosition(lines) == DeduplicatePositionLoop(lines, <<>>)

\* lines 414-422 of parse for one line: the total and original_total of
\* self.receipt after the line
ImprovedTotalAfter(acc, found_total) ==
    [acc EXCEPT !.total = IF found_total > 0 THEN found_total ELSE acc.total,
                !.original_total = IF found_total > 0 THEN found_total
                                   ELSE acc.original_total]

\* lines 379-422 of parse for one line: built is what the item patterns
\* give for the line
ImprovedAfterLine(acc, built, found_total) ==
    IF built.raises THEN [acc EXCEPT !.raises = TRUE]
    ELSE ImprovedTotalAfter([acc EXCEPT !.raw_items = acc.raw_items \o built.items],
                            found_total)

RECURSIVE ImprovedScan(_, _)
\* the loop of lines 374-422 of parse over the lines: raw_items and the total
\* of self.receipt, or the exception that ends the loop
ImprovedScan(lines, acc) ==
    IF lines = <<>> \/ acc.raises THEN acc
    ELSE ImprovedScan(Tail(lines),
            ImprovedAfterLine(acc,
                ImprovedItemsOfLine(Head(lines), Len(acc.raw_items) + 1),
                ImprovedTotalOfLine(Head(lines))))

\* __init__ of improved_version_split.py: self.receipt = Receipt()
EmptyReceipt ==
    [items |-> <<>>, total |-> 0, original_total |-> 0, tip_amount |-> 0,
     currency |-> "BGN"]

\* lines 424-427 of parse: the items are assigned and calculate_total() is
\* called when the total is 0; an exception of the loop leaves the items
ImprovedFinish(receipt, scan, found) ==
    IF scan.raises
    THEN [raises |-> TRUE,
          receipt |-> [receipt EXCEPT !.total = scan.total,
                                      !.original_total = scan.original_total]]
    ELSE IF scan.total = 0 /\ found # <<>>
    THEN [raises |-> FALSE,
          receipt |-> [receipt EXCEPT
              !.items = found,
              !.total = SumPrices(found) + receipt.tip_amount,
              !.original_total = IF scan.original_total = 0
                                 THEN SumPrices(found)
                                 ELSE scan.original_total]]
    ELSE [raises |-> FALSE,
          receipt |-> [receipt EXCEPT !.items = found,
                                      !.total = scan.total,
                                      !.original_total = scan.original_total]]

\* the merge of line 424 on what the loop collected
ImprovedMerged(receipt, scan) ==
    ImprovedFinish(receipt, scan,
                   IF scan.raises THEN <<>> ELSE MergeDuplicateItems(scan.raw_items))

\* parse(ocr_text) of improved_version_split.py on a parser whose
\* self.receipt is receipt: the Receipt afterwards and whether parse raised.
\* No line of parse creates a Receipt or sets tip_amount or currency.
ImprovedParseOf(lines, receipt) ==
    ImprovedMerged(receipt,
        ImprovedScan(DeduplicateByPosition(lines),
                     [raises |-> FALSE, raw_items |-> <<>>,
                      total |-> receipt.total,
                      original_total |-> receipt.original_total]))

\* self.receipt of the parser
TheReceipt ==
    [items |-> items, total |-> total, original_total |-> original_total,
     tip_amount |-> tip_amount, currency |-> currency]

\* receipt = parser.parse(ocr_text) of improved_version_split.py
ImprovedParse(ocr_text) ==
    \E result \in {ImprovedParseOf(ocr_text, TheReceipt)} :
        /\ text' = ocr_text
        /\ raised' = result.raises
        /\ items' = result.receipt.items
        /\ total' = result.receipt.total
        /\ original_total' = result.receipt.original_total
        /\ tip_amount' = result.receipt.tip_amount
        /\ currency' = result.receipt.currency
        /\ last' = "improved_parse"
        /\ UNCHANGED <<splitterVars, merged, deduplicated, poolVars, cliVars>>

-----------------------------------------------------------------------------
(* One parser of improved_version_split.py given text after text, with tips *)
(* added to the Receipt in between.                                         *)

MaxReparseLines == 2

\* "Tea 2", "Tea 2x3.5 7", "Tea 0x0 3" and "TOTAL 7": a line of simple_item,
\* a line of en_item, a line whose count and unit price are 0, a total line
ReparseLines ==
    {Tea \o <<" ", "2">>,
     Tea \o <<" ", "2", "x", "3", ".", "5", " ", "7">>,
     Tea \o <<" ", "0", "x", "0", " ", "3">>,
     <<"T", "O", "T", "A", "L", " ", "7">>}

RECURSIVE ReparseTextsOfLength(_)
ReparseTextsOfLength(n) ==
    IF n = 0 THEN {<<>>}
    ELSE {Append(t, l) : t \in ReparseTextsOfLength(n - 1), l \in ReparseLines}

ReparseTexts == UNION {ReparseTextsOfLength(n) : n \in 0..MaxReparseLines}

\* ReceiptParser.__init__ of improved_version_split.py
InitReparse ==
    /\ text = <<>>
    /\ Untouched

NextReparse ==
    \/ \E ocr_text \in ReparseTexts : ImprovedParse(ocr_text)
    \/ \E amount \in 0..TipCents : AddTip(amount)

SpecReparse == InitReparse /\ [][NextReparse]_vars

-----------------------------------------------------------------------------
(* ReceiptParser.parse (receipt_parser.py) step by step: the lines are      *)
(* handed to a ThreadPoolExecutor by executor.map, the workers take them in *)
(* the order of submission and finish in any order, and the loop of line    *)
(* 287 reads the results.                                                   *)

MaxWorkers == 2

MaxPoolLines == 3

\* a future of the executor: queued, running, done, yielded to the caller or
\* cancelled; finished is its place in the order of completion
Future(state, finished) == [state |-> state, finished |-> finished]

\* the number of futures that have finished
Finished(fs) == Cardinality({k \in DOMAIN fs : fs[k].finished > 0})

\* lines 267-285 of parse: the new Receipt, the lines and executor.map, which
\* submits every line before it returns
StartParse ==
    /\ call = "none"
    /\ last = "init"
    /\ \E lines \in {DeduplicateByLineSimilarity(text)} :
          /\ deduplicated' = lines
          /\ currency' = DetectCurrency(Join(lines))
          /\ futures' = [k \in DOMAIN lines |-> Future("queued", 0)]
    /\ items' = <<>>
    /\ total' = 0
    /\ original_total' = 0
    /\ tip_amount' = 0
    /\ collected' = <<>>
    /\ call' = "parse"
    /\ raised' = FALSE
    /\ last' = "executor.map"
    /\ UNCHANGED <<splitterVars, text, merged, cliVars>>

\* a worker thread takes the oldest queued line; at most max_workers
\* (line 285) lines are in work
WorkerStart(k) ==
    /\ call = "parse"
    /\ futures[k].state = "queued"
    /\ \A j \in 1..(k - 1) : futures[j].state # "queued"
    /\ Cardinality({j \in DOMAIN futures : futures[j].state = "running"}) < MaxWorkers
    /\ futures' = [futures EXCEPT ![k].state = "running"]
    /\ last' = "worker_start"
    /\ UNCHANGED <<items, total, original_total, tip_amount, currency,
                   splitterVars, text, merged, deduplicated, call, collected,
                   raised, cliVars>>

\* a worker thread returns from _extract_items_from_line
WorkerFinish(k) ==
    /\ call = "parse"
    /\ futures[k].state = "running"
    /\ futures' = [futures EXCEPT ![k] = Future("done", Finished(futures) + 1)]
    /\ last' = "worker_finish"
    /\ UNCHANGED <<items, total, original_total, tip_amount, currency,
                   splitterVars, text, merged, deduplicated, call, collected,
                   raised, cliVars>>

\* the future the iterator of executor.map yields last of all
LastToYield(fs) ==
    CHOOSE k \in DOMAIN fs :
        /\ fs[k].state # "yielded"
        /\ \A j \in DOMAIN fs : j > k => fs[j].state = "yielded"

\* the future the iterator of executor.map yields next: the first in the
\* order of submission that was not yielded
NextToYield(fs) ==
    CHOOSE k \in DOMAIN fs :
        /\ fs[k].state # "yielded"
        /\ \A j \in DOMAIN fs : j < k => fs[j].state = "yielded"

\* one round of the loop of lines 287-289: the iterator waits for its next
\* future; the exception of a worker leaves the loop and parse, the queued
\* futures are cancelled and the executor waits for the running ones
YieldResult ==
    /\ call = "parse"
    /\ \E k \in DOMAIN futures : futures[k].state # "yielded"
    /\ \E k \in {NextToYield(futures)} :
       \E result \in {ExtractItemsFromLine(deduplicated[k], k)} :
          /\ futures[k].state = "done"
          /\ IF result.raises
             THEN /\ futures' = [j \in DOMAIN futures |->
                        IF futures[j].state = "queued"
                        THEN Future("cancelled", 0)
                        ELSE IF futures[j].state = "running"
                        THEN Future("done", Finished(futures) + 1)
                        ELSE futures[j]]
                  /\ raised' = TRUE
                  /\ call' = "none"
                  /\ last' = "parse"
                  /\ UNCHANGED collected
             ELSE /\ futures' = [futures EXCEPT ![k].state = "yielded"]
                  /\ collected' = collected \o result.items
                  /\ last' = "yield"
                  /\ UNCHANGED <<raised, call, cliVars>>
    /\ UNCHANGED <<items, total, original_total, tip_amount, currency,
                   splitterVars, text, merged, deduplicated, cliVars>>

\* lines 291-348 of parse after the loop: the items collected or those of the
\* fallback pass, and the total
FinishParse ==
    /\ call = "parse"
    /\ \A k \in DOMAIN futures : futures[k].state = "yielded"
    /\ \E found \in {FoundItems(deduplicated, <<[items |-> collected]>>)} :
       \E found_total \in {FindTotal(Join(deduplicated))} :
          /\ items' = found
          /\ total' = TotalOf(found, found_total)
          /\ original_total' = total'
    /\ call' = "none"
    /\ last' = "parse"
    /\ UNCHANGED <<tip_amount, currency, splitterVars, text, merged,
                   deduplicated, futures, collected, raised, cliVars>>

\* "Tea 7.00", "Tea x2 7.00", "Tax 7.00", which is no item, and
\* "Tea 0 x 0 0.30", on which the worker raises
PoolLines ==
    {Tea \o <<" ", "7", ".", "0", "0">>,
     Tea \o <<" ", "x", "2", " ", "7", ".", "0", "0">>,
     Tax \o <<" ", "7", ".", "0", "0">>,
     Tea \o <<" ", "0", " ", "x", " ", "0", " ", "0", ".", "3", "0">>}

RECURSIVE PoolTextsOfLength(_)
PoolTextsOfLength(n) ==
    IF n = 0 THEN {<<>>}
    ELSE {Append(t, l) : t \in PoolTextsOfLength(n - 1), l \in PoolLines}

\* ReceiptParser.__init__ and the text handed to parse
InitPool ==
    /\ text \in UNION {PoolTextsOfLength(n) : n \in 0..MaxPoolLines}
    /\ Untouched

NextPool ==
    \/ StartParse
    \/ \E k \in DOMAIN futures : WorkerStart(k)
    \/ \E k \in DOMAIN futures : WorkerFinish(k)
    \/ YieldResult
    \/ FinishParse

SpecPool == InitPool /\ [][NextPool]_vars

-----------------------------------------------------------------------------
(* ParallelOCRProcessor.process_image_parallel (ocr_processor.py) and       *)
(* ParallelReceiptProcessor.parallel_ocr (basic_split.py): one future per   *)
(* region, read with as_completed, then sorted by region and joined.  The   *)
(* text of a region is one line; the joined text is the list of the region  *)
(* texts.                                                                   *)

MaxRegions == 3

\* what pytesseract.image_to_string does on a region: a text or an exception
OcrOutcomes ==
    {[fails |-> FALSE, text |-> Tea \o <<" ", "7", ".", "0", "0">>],
     [fails |-> FALSE, text |-> Tax \o <<" ", "7", ".", "0", "0">>],
     [fails |-> TRUE, text |-> <<>>]}

\* the future of a region
RegionFuture(state, finished, ocr) ==
    [state |-> state, finished |-> finished, ocr |-> ocr]

\* what future.result() gives. process_region of ocr_processor.py catches
\* the exception and returns ""; process_region of basic_split.py lets it
\* through
RegionResult(program, ocr) ==
    IF program = "process_image_parallel"
    THEN [raises |-> FALSE, text |-> IF ocr.fails THEN <<>> ELSE ocr.text]
    ELSE [raises |-> ocr.fails, text |-> ocr.text]

\* the dictionary of futures: max_workers is the number of regions, so every
\* region is in work at once
SubmitRegions(program, ocrs) ==
    /\ call = "none"
    /\ last = "init"
    /\ futures' = [k \in DOMAIN ocrs |-> RegionFuture("running", 0, ocrs[k])]
    /\ collected' = <<>>
    /\ call' = program
    /\ last' = "submit"
    /\ UNCHANGED <<items, total, original_total, tip_amount, currency,
                   splitterVars, text, merged, deduplicated, raised, cliVars>>

\* a worker thread returns from process_region
RegionFinish(k) ==
    /\ call \in {"process_image_parallel", "parallel_ocr"}
    /\ futures[k].state = "running"
    /\ futures' = [futures EXCEPT ![k].state = "done",
                                  ![k].finished = Finished(futures) + 1]
    /\ last' = "region_finish"
    /\ UNCHANGED <<items, total, original_total, tip_amount, currency,
                   splitterVars, text, merged, deduplicated, call, collected,
                   raised, cliVars>>

\* one round of the loop over as_completed, which yields the futures as they
\* finish: process_image_parallel appends the pair of a result and prints an
\* exception, parallel_ocr appends the pair of "" for an exception
CollectCompleted(k) ==
    /\ call \in {"process_image_parallel", "parallel_ocr"}
    /\ futures[k].state = "done"
    /\ \E result \in {RegionResult(call, futures[k].ocr)} :
          collected' =
              IF ~result.raises THEN Append(collected, <<k, result.text>>)
              ELSE IF call = "parallel_ocr" THEN Append(collected, <<k, <<>>>>)
              ELSE collected
    /\ futures' = [futures EXCEPT ![k].state = "yielded"]
    /\ last' = "as_completed"
    /\ UNCHANGED <<items, total, original_total, tip_amount, currency,
                   splitterVars, text, merged, deduplicated, call, raised, cliVars>>

\* the place of pair i after a stable sort by region: behind the pairs of a
\* smaller region and the earlier pairs of the same region
PlaceByRegion(full_text, i) ==
    1 + Cardinality({j \in DOMAIN full_text :
                        \/ full_text[j][1] < full_text[i][1]
                        \/ full_text[j][1] = full_text[i][1] /\ j < i})

\* the pairs as they were appended
Unsorted(full_text) == full_text

\* full_text.sort(key=lambda x: x[0])
SortByRegion(full_text) ==
    [p \in DOMAIN full_text |->
        full_text[CHOOSE i \in DOMAIN full_text : PlaceByRegion(full_text, i) = p]]

\* after the loop: the pairs sorted and the texts joined with "\n"
JoinRegions ==
    /\ call \in {"process_image_parallel", "parallel_ocr"}
    /\ \A k \in DOMAIN futures : futures[k].state = "yielded"
    /\ \E sorted \in {SortByRegion(collected)} :
          text' = [k \in DOMAIN sorted |-> sorted[k][2]]
    /\ last' = call
    /\ call' = "none"
    /\ UNCHANGED <<items, total, original_total, tip_amount, currency,
                   splitterVars, merged, deduplicated, futures, collected,
                   raised, cliVars>>

RECURSIVE OcrsOfLength(_)
OcrsOfLength(n) ==
    IF n = 0 THEN {<<>>}
    ELSE {Append(o, r) : o \in OcrsOfLength(n - 1), r \in OcrOutcomes}

\* ParallelOCRProcessor.__init__ and ParallelReceiptProcessor.__init__
InitOcr ==
    /\ text = <<>>
    /\ Untouched

NextOcr ==
    \/ \E program \in {"process_image_parallel", "parallel_ocr"} :
       \E n \in 1..MaxRegions : \E ocrs \in OcrsOfLength(n) :
          SubmitRegions(program, ocrs)
    \/ \E k \in DOMAIN futures : RegionFinish(k)
    \/ \E k \in DOMAIN futures : CollectCompleted(k)
    \/ JoinRegions

SpecOcr == InitOcr /\ [][NextOcr]_vars

-----------------------------------------------------------------------------
(* The while loop of optimize_settlements, one iteration at a time *)

\* line 76: the loop condition in the loop state st
PairContinues(st) == st.i <= Len(st.creditors) /\ st.j <= Len(st.debtors)

\* one iteration whose tests of lines 90 and 92 are `< 0`: a remainder of
\* zero advances no pointer
PairIterationNoAdvance(st, cur) ==
    LET amount == Min(st.creditors[st.i].amount, st.debtors[st.j].amount)
        cr2 == [st.creditors EXCEPT ![st.i].amount = @ - amount]
        db2 == [st.debtors EXCEPT ![st.j].amount = @ - amount]
    IN  [settlements |->
             IF amount > SETTLEMENT_EPSILON
             THEN Append(st.settlements,
                         MakeSettlement(st.debtors[st.j], st.creditors[st.i],
                                        amount, cur))
             ELSE st.settlements,
         i |-> IF cr2[st.i].amount < 0 THEN st.i + 1 ELSE st.i,
         j |-> IF db2[st.j].amount < 0 THEN st.j + 1 ELSE st.j,
         creditors |-> cr2, debtors |-> db2]

\* lines 77-93: one iteration of the loop from the loop state st
PairIteration(st, cur) ==
    LET amount == Min(st.creditors[st.i].amount, st.debtors[st.j].amount)
        cr2 == [st.creditors EXCEPT ![st.i].amount = @ - amount]
        db2 == [st.debtors EXCEPT ![st.j].amount = @ - amount]
    IN  [settlements |->
             IF amount > SETTLEMENT_EPSILON
             THEN Append(st.settlements,
                         MakeSettlement(st.debtors[st.j], st.creditors[st.i],
                                        amount, cur))
             ELSE st.settlements,
         i |-> IF cr2[st.i].amount < SETTLEMENT_EPSILON THEN st.i + 1 ELSE st.i,
         j |-> IF db2[st.j].amount < SETTLEMENT_EPSILON THEN st.j + 1 ELSE st.j,
         creditors |-> cr2, debtors |-> db2]

RECURSIVE PairRun(_, _, _)
\* lines 76-93: the loop states from st on, cut after `fuel` iterations
PairRun(st, cur, fuel) ==
    IF ~PairContinues(st) \/ fuel = 0
    THEN <<st>>
    ELSE <<st>> \o PairRun(PairIteration(st, cur), cur, fuel - 1)

\* lines 70-74: the loop state before the first iteration
PairStart(ppl, bal, tot) ==
    LET share == EqualShare(tot, ppl)
    IN  [settlements |-> <<>>, i |-> 1, j |-> 1,
         creditors |-> SortDesc(CreditorList(ppl, bal, share)),
         debtors |-> SortDesc(DebtorList(ppl, bal, share))]

-----------------------------------------------------------------------------
(* GroupifyCLI (cli_interface.py): the menu of run and of manage_people.    *)
(* people is GroupifyCLI.people, items to currency are the fields of        *)
(* GroupifyCLI.receipt, balances and settlements those of                   *)
(* GroupifyCLI.splitter. Names are strings of characters.                   *)

\* the inputs one session reads
MaxInputs == 6

\* one more input handled by the session
Handled == [cli EXCEPT !.inputs = @ + 1]

\* f"Person {i}" for i in range(1, 5)
PersonName(i) ==
    <<"P", "e", "r", "s", "o", "n", " ">> \o <<(<<"1", "2", "3", "4">>)[i]>>

\* lines 94-95 and 100-101: append unless the name is in the list
AppendNew(list, name) ==
    IF name \in Range(list) THEN list ELSE Append(list, name)

\* lines 93-96 with the test `if name`: the test `name not in self.people` is
\* left out
AddedAgain(list, typed) ==
    IF Strip(typed) # <<>> THEN Append(list, Strip(typed)) ELSE list

\* lines 93-96: the list after choice 1 with the name typed
Added(list, typed) ==
    IF Strip(typed) # <<>> THEN AppendNew(list, Strip(typed)) ELSE list

\* manage_people, choice 1
AddPerson(typed) ==
    /\ cli.inputs < MaxInputs
    /\ people' = Added(people, typed)
    /\ cli' = Handled
    /\ raised' = FALSE
    /\ last' = "add_person"
    /\ UNCHANGED <<items, total, original_total, tip_amount, currency, balances,
                   settlements, text, merged, deduplicated, poolVars, exported>>

\* lines 98-102: Person 1 to Person 4, each unless already in the list
QuickAdded(list) ==
    AppendNew(AppendNew(AppendNew(AppendNew(list, PersonName(1)),
                                  PersonName(2)), PersonName(3)), PersonName(4))

\* manage_people, choice 2
QuickAdd ==
    /\ cli.inputs < MaxInputs
    /\ people' = QuickAdded(people)
    /\ cli' = Handled
    /\ raised' = FALSE
    /\ last' = "quick_add"
    /\ UNCHANGED <<items, total, original_total, tip_amount, currency, balances,
                   settlements, text, merged, deduplicated, poolVars, exported>>

\* a number typed, or something int() raises on
Typed(number) == [valid |-> TRUE, number |-> number]

NotANumber == [valid |-> FALSE, number |-> 0]

\* self.people.pop(idx)
Pop(list, idx) == SubSeq(list, 1, idx) \o SubSeq(list, idx + 2, Len(list))

\* lines 104-114: the list after choice 3 with the number typed
Removed(list, typed) ==
    IF list # <<>> /\ typed.valid
       /\ 0 <= typed.number - 1 /\ typed.number - 1 < Len(list)
    THEN Pop(list, typed.number - 1)
    ELSE list

\* manage_people, choice 3
RemovePerson(typed) ==
    /\ cli.inputs < MaxInputs
    /\ people' = Removed(people, typed)
    /\ cli' = Handled
    /\ raised' = FALSE
    /\ last' = "remove_person"
    /\ UNCHANGED <<items, total, original_total, tip_amount, currency, balances,
                   settlements, text, merged, deduplicated, poolVars, exported>>

\* manage_people, choice 4
ClearAll ==
    /\ cli.inputs < MaxInputs
    /\ people' = <<>>
    /\ cli' = Handled
    /\ raised' = FALSE
    /\ last' = "clear_all"
    /\ UNCHANGED <<items, total, original_total, tip_amount, currency, balances,
                   settlements, text, merged, deduplicated, poolVars, exported>>

\* lines 262-328 of receipt_parser.py: the Receipt parse returns for the lines
\* of an OCR text
ReceiptOf(ocr_text) ==
    LET lines == DeduplicateByLineSimilarity(ocr_text)
        results == ExtractAll(lines)
        found == FoundItems(lines, results)
    IN  [items |-> found,
         total |-> TotalOf(found, FindTotal(Join(lines))),
         currency |-> DetectCurrency(Join(lines)),
         raises |-> \E k \in DOMAIN results : results[k].raises]

\* process_receipt(image_path): the OCR text of the image is parsed into a
\* new Receipt; the splitter stays
ProcessReceipt(parsed) ==
    /\ cli.inputs < MaxInputs
    /\ ~parsed.raises
    /\ items' = parsed.items
    /\ total' = parsed.total
    /\ original_total' = parsed.total
    /\ tip_amount' = 0
    /\ currency' = parsed.currency
    /\ cli' = [Handled EXCEPT !.receipt = TRUE]
    /\ raised' = FALSE
    /\ last' = "process_receipt"
    /\ UNCHANGED <<people, balances, settlements, text, merged, deduplicated,
                   poolVars, exported>>

\* the answer for one item: choice 1, 2 or 3, and for choice 2 the person
\* numbers typed, or something int() raises on
Answer(choice, valid, numbers) ==
    [choice |-> choice, valid |-> valid, numbers |-> numbers]

\* line 155: the people of the numbers that are in range
Selected(list, numbers) ==
    LET in_range == SelectSeq(numbers, LAMBDA n : 0 <= n - 1 /\ n - 1 < Len(list))
    IN  [k \in DOMAIN in_range |-> list[in_range[k]]]

\* lines 146-159: the item after its answer
AssignedItem(item, list, answer) ==
    IF answer.choice = "1" THEN [item EXCEPT !.assigned_to = list]
    ELSE IF answer.choice = "2" /\ answer.valid
    THEN [item EXCEPT !.assigned_to = Selected(list, answer.numbers)]
    ELSE item

\* assign_items() with one answer for every item
AssignItems(answers) ==
    /\ cli.inputs < MaxInputs
    /\ items' = IF cli.receipt /\ items # <<>> /\ people # <<>>
                THEN [k \in DOMAIN items |-> AssignedItem(items[k], people, answers[k])]
                ELSE items
    /\ cli' = Handled
    /\ raised' = FALSE
    /\ last' = "assign_items"
    /\ UNCHANGED <<people, total, original_total, tip_amount, currency, balances,
                   settlements, text, merged, deduplicated, poolVars, exported>>

\* add_tip(): the amount typed, or something float() raises on; a negative
\* amount is refused
AddTipTyped(typed) ==
    /\ cli.inputs < MaxInputs
    /\ IF cli.receipt /\ typed.valid /\ typed.number >= 0
       THEN /\ tip_amount' = typed.number
            /\ total' = original_total + typed.number
       ELSE UNCHANGED <<tip_amount, total>>
    /\ cli' = Handled
    /\ raised' = FALSE
    /\ last' = "add_tip"
    /\ UNCHANGED <<people, items, original_total, currency, balances,
                   settlements, text, merged, deduplicated, poolVars, exported>>

\* lines 167-171 and 230-232: assign_items_equally() when an item is unassigned
EquallyIfUnassigned(its, ppl) ==
    IF \E k \in DOMAIN its : its[k].assigned_to = <<>>
    THEN AssignEqually(its, ppl)
    ELSE its

\* calculate_settlements(): a new BillSplitter of the receipt and the people
CalculateSettlements ==
    /\ cli.inputs < MaxInputs
    /\ IF cli.receipt /\ people # <<>>
       THEN \E its \in {EquallyIfUnassigned(items, people)} :
            \E bal \in {CalcBalances(people, its, tip_amount)} :
               /\ items' = its
               /\ balances' = bal
               /\ settlements' = Pairing(people, bal, total, currency).settlements
               /\ cli' = [Handled EXCEPT !.splitter = TRUE]
       ELSE /\ cli' = Handled
            /\ UNCHANGED <<items, balances, settlements>>
    /\ raised' = FALSE
    /\ last' = "calculate_settlements"
    /\ UNCHANGED <<people, total, original_total, tip_amount, currency, text,
                   merged, deduplicated, poolVars, exported>>

\* lines 238-268: the settlement analysis of the data, taken from the splitter
\* if there is one; json.dump raises on the Decimal values of the balances
ExportedData(splitter, bal, setts) ==
    [analysis |-> splitter,
     individual_shares |-> IF splitter THEN bal ELSE EmptyDict,
     settlements |-> IF splitter THEN setts ELSE <<>>,
     failed |-> splitter /\ DOMAIN bal # {}]

\* export_results(): a BillSplitter is made only when there is none
ExportResults ==
    /\ cli.inputs < MaxInputs
    /\ IF ~cli.receipt
       THEN /\ cli' = Handled
            /\ UNCHANGED <<items, balances, settlements, exported>>
       ELSE IF ~cli.splitter /\ people # <<>>
       THEN \E its \in {EquallyIfUnassigned(items, people)} :
            \E bal \in {CalcBalances(people, its, tip_amount)} :
               /\ items' = its
               /\ balances' = bal
               /\ settlements' = Pairing(people, bal, total, currency).settlements
               /\ cli' = [Handled EXCEPT !.splitter = TRUE]
               /\ exported' = ExportedData(TRUE, balances', settlements')
       ELSE /\ cli' = Handled
            /\ exported' = ExportedData(cli.splitter, balances, settlements)
            /\ UNCHANGED <<items, balances, settlements>>
    /\ raised' = FALSE
    /\ last' = "export_results"
    /\ UNCHANGED <<people, total, original_total, tip_amount, currency, text,
                   merged, deduplicated, poolVars>>

\* the names typed: nothing, a space, "A" between spaces, and "Person 1"
NamesTyped == {<<>>, <<" ">>, <<" ", "A", " ">>, PersonName(1)}

\* the numbers typed to remove a person
NumbersTyped == {NotANumber, Typed(0), Typed(1), Typed(2), Typed(5)}

\* the OCR texts of the images: "Tea 7.00", and the same with "Tea x2 7.00"
CliTexts ==
    {<<Tea \o <<" ", "7", ".", "0", "0">>>>,
     <<Tea \o <<" ", "7", ".", "0", "0">>,
       Tea \o <<" ", "x", "2", " ", "7", ".", "0", "0">>>>}

CliReceipts == {ReceiptOf(ocr_text) : ocr_text \in CliTexts}

\* the answers typed for one item
AnswersTyped ==
    {Answer("1", TRUE, <<>>), Answer("3", TRUE, <<>>),
     Answer("2", TRUE, <<1>>), Answer("2", TRUE, <<2, 1, 0>>),
     Answer("2", FALSE, <<>>)}

\* the tips typed, in cents
TipsTyped == {NotANumber} \cup {Typed(n) : n \in (-1)..TipCents}

\* GroupifyCLI.__init__
InitCli ==
    /\ Untouched
    /\ text = <<>>

ManagePeople ==
    \/ \E typed \in NamesTyped : AddPerson(typed)
    \/ QuickAdd
    \/ \E typed \in NumbersTyped : RemovePerson(typed)
    \/ ClearAll

NextCli ==
    \/ \E parsed \in CliReceipts : ProcessReceipt(parsed)
    \/ ManagePeople
    \/ \E answers \in [DOMAIN items -> AnswersTyped] : AssignItems(answers)
    \/ \E typed \in TipsTyped : AddTipTyped(typed)
    \/ CalculateSettlements
    \/ ExportResults

SpecCli == InitCli /\ [][NextCli]_vars

-----------------------------------------------------------------------------
(* Claims about BillSplitter, checked under SpecSplit *)

Optimized == last = "optimize_settlements" /\ ~raised

\* cents received by p over all settlements
Received(p) ==
    SumSeq([k \in DOMAIN settlements |->
              IF settlements[k].to_person = p THEN settlements[k].amount ELSE 0])

\* cents paid by p over all settlements
Paid(p) ==
    SumSeq([k \in DOMAIN settlements |->
              IF settlements[k].from_person = p THEN settlements[k].amount ELSE 0])

\* number of settlements p takes part in
Involving(p) ==
    Cardinality({k \in DOMAIN settlements :
                    settlements[k].to_person = p \/ settlements[k].from_person = p})

\* every item is assigned, to people of the list only, the total is the sum of
\* the items plus the tip, and self.balances is what calculate_balances gives
WellFormedReceipt ==
    /\ people # <<>>
    /\ \A k \in DOMAIN items :
          /\ items[k].assigned_to # <<>>
          /\ Range(items[k].assigned_to) \subseteq Range(people)
    /\ total = SumPrices(items) + tip_amount
    /\ balances = CalcBalances(people, items, tip_amount)

\* C1: after optimize_settlements, every person's balance, lowered by what the
\* person receives and raised by what the person pays, is within epsilon of
\* equal_share.  Stated for the receipts most favourable to the claim: every
\* item assigned to people of the list and total = items + tip.
C1_SettledWithinEpsilon ==
    (Optimized /\ WellFormedReceipt) =>
        \A p \in Range(people) :
            Abs(balances[p] - ToDec(Received(p)) + ToDec(Paid(p))
                - EqualShare(total, people)) <= SETTLEMENT_EPSILON

\* half a cent for each rounded settlement amount, plus epsilon for the remainder
\* the loop leaves when it advances a pointer
RoundingAllowance(p) == Involving(p) * (DecUnit \div 2) + SETTLEMENT_EPSILON

\* C2: what a creditor receives sums to its surplus and what a debtor pays sums
\* to its deficit, within rounding error.  Stated for the receipts most
\* favourable to the claim, as C1.
C2_SettlementsCoverSurplus ==
    (Optimized /\ WellFormedReceipt) =>
        \A p \in Range(people) :
            LET d == Difference(balances, p, EqualShare(total, people))
            IN  /\ IsCreditor(d) => Abs(ToDec(Received(p)) - d) <= RoundingAllowance(p)
                /\ IsDebtor(d) => Abs(ToDec(Paid(p)) + d) <= RoundingAllowance(p)

\* the prices of the items whose assigned_to is not empty
AssignedPrices ==
    SumSeq([k \in DOMAIN items |->
              IF items[k].assigned_to # <<>> THEN items[k].price ELSE 0])

SumBalances == SumSeq([k \in DOMAIN people |-> balances[people[k]]])

\* C3: the balances calculate_balances returns sum to the prices of the assigned
\* items plus the tip, within 0.01 * |people|.
C3_BalanceConservation ==
    (last = "calculate_balances" /\ ~raised /\ people # <<>>) =>
        Abs(SumBalances - ToDec(AssignedPrices + tip_amount))
            <= ToDec(1) * Len(people)

\* C4: optimize_settlements with an empty people list returns an empty list and
\* does not raise.
C4_EmptyPeopleEmptyList ==
    (last = "optimize_settlements" /\ people = <<>>) =>
        (~raised /\ settlements = <<>>)

AllBalancesEqual ==
    \A p, q \in Range(people) : balances[p] = balances[q]

\* C9: when all people have equal balances, optimize_settlements returns an empty
\* list, whatever the receipt total is.
C9_EqualBalancesNoSettlement ==
    (Optimized /\ AllBalancesEqual) => settlements = <<>>

\* C9 witness: several people with the same balance, which is more than epsilon
\* above an equal share that the total does not match, and nothing to settle
C9_Witness ==
    /\ Optimized /\ AllBalancesEqual /\ Len(people) >= 2
    /\ total # SumPrices(items) + tip_amount
    /\ \A p \in Range(people) :
          IsCreditor(Difference(balances, p, EqualShare(total, people)))
    /\ settlements = <<>>

\* two people whose balances differ and sum to the receipt total
TwoPeople(hi, lo) ==
    /\ Optimized /\ Len(people) = 2
    /\ Range(people) = {hi, lo}
    /\ balances[hi] > balances[lo]
    /\ balances[hi] + balances[lo] = ToDec(total)

\* C10 as claimed: exactly one settlement, from the lower balance to the higher,
\* of amount (a - b) / 2.
C10_OneSettlementOfHalfDifference ==
    \A hi, lo \in Range(people) :
        TwoPeople(hi, lo) =>
            /\ Len(settlements) = 1
            /\ settlements[1].from_person = lo
            /\ settlements[1].to_person = hi
            /\ 2 * ToDec(settlements[1].amount) = balances[hi] - balances[lo]

\* C10 amended: when a - b is more than 0.02 there is exactly one settlement, from
\* the lower balance to the higher, of (a - b) / 2 rounded half-up to the cent;
\* when a - b is at most 0.02 there is none.
C10_OneSettlementRounded ==
    \A hi, lo \in Range(people) :
        TwoPeople(hi, lo) =>
            LET d == ToCents(balances[hi] - balances[lo])
            IN  IF d > 2 * EpsilonCents
                THEN /\ Len(settlements) = 1
                     /\ settlements[1].from_person = lo
                     /\ settlements[1].to_person = hi
                     /\ settlements[1].amount = (d + 1) \div 2
                ELSE settlements = <<>>

\* C10 witness: balances {A: 30, B: 10}, total 40, the single settlement B -> A 10.00
C10_Witness ==
    /\ TwoPeople("A", "B")
    /\ balances["A"] = ToDec(3000) /\ balances["B"] = ToDec(1000)
    /\ total = 4000
    /\ settlements = <<[from_person |-> "B", to_person |-> "A",
                        amount |-> 1000, currency |-> "BGN"]>>

-----------------------------------------------------------------------------
(* Claims about ReceiptParser.parse and Receipt, checked under SpecParse *)

\* C5: in every state reached by parse, add_tip and calculate_total the
\* receipt satisfies total = original_total + tip_amount
C5_TotalIsOriginalPlusTip == total = original_total + tip_amount

\* C6: parse never raises, whatever the text: a line whose quantity is 0 or
\* whose unit price is rejected yields an item or is skipped
C6_ParseNeverRaises == last = "parse" => ~raised

\* C7: the receipt parse returns never holds two items with identical
\* normalized names whose prices differ by less than 0.01
C7_NoDuplicatesAfterParse ==
    (last = "parse" /\ ~raised) =>
        \A i, j \in DOMAIN items :
            i < j => ~(/\ NormalizeText(items[i].name) = NormalizeText(items[j].name)
                       /\ Abs(items[i].price - items[j].price) < 1)

-----------------------------------------------------------------------------
(* Claims about _merge_duplicate_items, checked under SpecMerge *)

\* two exact duplicates: the same name, quantity 1, the same unit price and
\* the same price
ExactDuplicates ==
    /\ Len(items) = 2
    /\ items[1].name = items[2].name
    /\ items[1].quantity = 1 /\ items[2].quantity = 1
    /\ items[1].unit_price = items[2].unit_price
    /\ items[1].price = items[2].price

NoTwoSimilar ==
    \A i, j \in DOMAIN items : i < j => ~AreItemsSimilar(items[i], items[j])

\* C8: two exact duplicates (same name, quantity 1, same price p) merge into
\* exactly one item with quantity 2 and price 2p, and a list in which no two
\* items are similar is returned with the same items, fields and order
C8_MergeDoublesOrKeeps ==
    last = "merge" =>
        /\ ExactDuplicates =>
              /\ Len(merged) = 1
              /\ merged[1].quantity = 2
              /\ merged[1].price = 2 * items[1].price
        /\ NoTwoSimilar => merged = items

-----------------------------------------------------------------------------
(* Claims about _detect_currency, checked under SpecCurrency *)

\* the number of lines of the text that are one of the words
MarkCount(words) == Cardinality({k \in DOMAIN text : Upper(text[k]) \in words})

BgCount == MarkCount({<<"B", "G", "N">>})

UsdCount == MarkCount({<<"$">>, <<"U", "S", "D">>})

EurCount == MarkCount({<<"E", "U", "R">>})

\* C11: _detect_currency returns the currency whose marker count is strictly
\* higher than both other counts, and BGN when all counts are zero or the
\* highest count is shared
C11_StrictlyHighestOrBGN ==
    last = "detect_currency" =>
        currency = IF UsdCount > BgCount /\ UsdCount > EurCount THEN "USD"
                   ELSE IF EurCount > BgCount /\ EurCount > UsdCount THEN "EUR"
                   ELSE "BGN"

-----------------------------------------------------------------------------
(* Claims about the total parse detects, checked under SpecTotal *)

\* the lines of the text in which a total-amount pattern finds a total
TotalLineNumbers == {k \in DOMAIN text : FindTotal(text[k]) > 0}

\* C12: when several lines match a total-amount pattern, parse sets total and
\* original_total from the first matching line in line order, whatever
\* pattern each line matches and whatever later lines contain
C12_FirstTotalLineWins ==
    (last = "parse" /\ ~raised /\ TotalLineNumbers # {}) =>
        /\ total = FindTotal(text[SetMin(TotalLineNumbers)])
        /\ original_total = total

-----------------------------------------------------------------------------
(* Claims about the total parse computes, checked under SpecParse *)

\* _find_total finds no total in the text parse cleaned
NoTotalInText == FindTotal(Join(DeduplicateByLineSimilarity(text))) = 0

\* C13: when parse finds no total in the text and extracted at least one
\* item, the receipt has total = original_total = the sum of the prices of
\* its items
C13_TotalIsSumOfItems ==
    (last = "parse" /\ ~raised /\ items # <<>> /\ NoTotalInText) =>
        /\ total = SumPrices(items)
        /\ original_total = total

\* parse returned two items of a text without a total
C13_Witness ==
    /\ last = "parse" /\ ~raised
    /\ Len(items) = 2
    /\ NoTotalInText
    /\ total = items[1].price + items[2].price

-----------------------------------------------------------------------------
(* Claims about _clean_price, checked under SpecPrice *)

\* the normalization as it is specified: with both separators the dots go
\* and the comma is the decimal point; a single comma followed by 1 or 2
\* digits is the decimal point; any other comma is a thousands separator and
\* goes
SpecifiedSeparators(cleaned) ==
    LET hasComma == "," \in Range(cleaned)
        hasDot == "." \in Range(cleaned)
        NotDot(c) == c # "."
        NotComma(c) == c # ","
        CommaToDot(str) == [k \in DOMAIN str |-> IF str[k] = "," THEN "." ELSE str[k]]
    IN  IF hasComma /\ hasDot THEN CommaToDot(SelectSeq(cleaned, NotDot))
        ELSE IF /\ hasComma
                /\ Count(cleaned, ",") = 1
                /\ Len(AfterFirst(cleaned, ",")) \in {1, 2}
        THEN CommaToDot(cleaned)
        ELSE SelectSeq(cleaned, NotComma)

\* the specified price in cents, 0 being the sentinel of a rejected string
SpecifiedPrice(price_str) ==
    LET cleaned == SpecifiedSeparators(SelectSeq(price_str, KeepPriceChar))
    IN  IF ~IsFloat(cleaned) THEN 0
        ELSE LET cents == FloatCents(cleaned)
             IN  IF /\ cents >= ITEM_PRICE_MIN
                    /\ \/ cents < ITEM_PRICE_MAX
                       \/ cents = ITEM_PRICE_MAX /\ ~HasSubCent(cleaned)
                 THEN cents ELSE 0

\* C14: for every string _clean_price returns what the specified
\* normalization gives ("1,234" gives 1234), and rejects with the sentinel,
\* never by raising
C14_CleanPriceAsSpecified ==
    last = "clean_price" => (~raised /\ total = SpecifiedPrice(text[1]))

-----------------------------------------------------------------------------
(* Claims about _deduplicate_by_line_similarity, checked under SpecDedup *)

\* C15: no kept line is identical to an earlier kept line, no kept line has
\* similarity above 0.95 to any of the 10 kept lines that precede it, and the
\* same line fed twice is kept once
C15_NoDuplicateLineKept ==
    last = "deduplicate" =>
        /\ \A i, j \in DOMAIN deduplicated :
              i < j =>
                  /\ deduplicated[i] # deduplicated[j]
                  /\ j - i <= 10 => ~SimilarLines(deduplicated[j], deduplicated[i])
        /\ (Len(text) = 2 /\ text[1] = text[2] /\ Strip(text[1]) # <<>>) =>
              deduplicated = <<Strip(text[1])>>

\* more lines are kept than the window holds, one line of the text was
\* dropped for its similarity to a kept line, and the last line is kept
\* although it is similar to a kept line outside the window
C15_Witness ==
    /\ last = "deduplicate"
    /\ Len(deduplicated) > 11
    /\ \E k \in DOMAIN text :
          Strip(text[k]) # <<>> /\ Strip(text[k]) \notin Range(deduplicated)
    /\ SimilarLines(deduplicated[Len(deduplicated)], deduplicated[1])

-----------------------------------------------------------------------------
(* Claims about _extract_items_from_line, checked under SpecExtract *)

\* "Кафе 2x3.50 7.00"
KafeLine ==
    Kafe \o <<" ", "2", "x", "3", ".", "5", "0", " ", "7", ".", "0", "0">>

\* C16: the line "Кафе 2x3.50 7.00" yields exactly one item with the name
\* "Кафе", quantity 2, unit_price 3.50 and price 7.00
C16_KafeLineYieldsOneItem ==
    (last = "extract" /\ text = <<KafeLine>>) =>
        /\ ~raised
        /\ Len(items) = 1
        /\ items[1].name = Kafe
        /\ items[1].quantity = 2
        /\ items[1].unit_price = 350
        /\ items[1].price = 700


\* the matches of the five patterns on a line, in the order of the cascade;
\* a match of pattern 1, 2 or 3 has a quantity, one of pattern 3 a unit price
PatternMatches(line) ==
    <<QtyMatch(line), NumItemMatch(line), TraditionalMatch(line),
      SimpleMatch(line), NoDashMatch(line)>>

\* the match of pattern n on the line has a valid name and a valid price and,
\* for pattern 3, passes the check |quantity * unit_price - total| < 0.5
Builds(line, n) ==
    LET m == PatternMatches(line)[n]
    IN  /\ m.matched
        /\ IsValidItemName(Strip(m.name))
        /\ CleanPrice(m.price) > 0
        /\ n = 3 => Abs(DigitsValue(m.quantity) * CleanPrice(m.unit_price)
                          - CleanPrice(m.price)) < 50

\* the name, quantity and price of the item the match of pattern n gives
BuiltBy(line, n) ==
    LET m == PatternMatches(line)[n]
    IN  [name |-> Strip(m.name),
         quantity |-> IF n \in {1, 2, 3} THEN DigitsValue(m.quantity) ELSE 1,
         price |-> CleanPrice(m.price)]

\* C17: _extract_items_from_line returns at most one item per line, built by
\* the first pattern in the order 1 to 5 whose match has a valid name and a
\* valid price (and, for pattern 3, passes the consistency check); the other
\* matches produce nothing and no item is returned when no pattern builds one
C17_FirstBuildingPatternWins ==
    last = "extract" =>
        LET line == Strip(text[1])
            building == {n \in 1..5 : Builds(line, n)}
        IN  /\ ~raised
            /\ Len(items) <= 1
            /\ (building = {} \/ IsHeaderLine(line)) => items = <<>>
            /\ (building # {} /\ ~IsHeaderLine(line)) =>
                  /\ Len(items) = 1
                  /\ LET item == BuiltBy(line, SetMin(building))
                     IN  /\ items[1].name = item.name
                         /\ items[1].quantity = item.quantity
                         /\ items[1].price = item.price

-----------------------------------------------------------------------------
(* Claims about people without items, checked under SpecSplit *)

\* no item of the receipt is assigned to p
Unassigned(p) == \A k \in DOMAIN items : Count(items[k].assigned_to, p) = 0

BalancesCalculated ==
    last \in {"calculate_balances", "optimize_settlements"} /\ ~raised

\* the debtors of optimize_settlements, as lines 58-68 list them
Debtors == DebtorList(people, balances, EqualShare(total, people))

TipCentsPerPerson == (2 * tip_amount + Len(people)) \div (2 * Len(people))

-----------------------------------------------------------------------------
(* Claims about repeated parse calls, checked under SpecReparse *)

\* C19: after any sequence of parse and add_tip calls on one parser, the
\* Receipt a parse call returns for a text has the items, total,
\* original_total, tip_amount and currency that a fresh parser returns for
\* that text. The parser of improved_version_split.py keeps the one Receipt
\* of __init__, so a total or a tip of an earlier call stays in it.
C19_ParseStartsFromEmptyReceipt ==
    last = "improved_parse" /\ ~raised
        => TheReceipt = ImprovedParseOf(text, EmptyReceipt).receipt

\* C19: a text without a total line was parsed on a parser whose Receipt
\* held a total and a tip from before, and the Receipt returned differs
\* from the one a fresh parser returns
C19_StaleReceipt ==
    /\ last = "improved_parse" /\ ~raised
    /\ tip_amount > 0
    /\ items # <<>>
    /\ TheReceipt # ImprovedParseOf(text, EmptyReceipt).receipt


-----------------------------------------------------------------------------
(* Claims about the items of a parsed Receipt, checked under SpecParse *)

\* C20: every item of a Receipt that parse returns has a quantity of at
\* least 1 and a price of at least 0, and its unit_price is price / quantity
\* within rounding (in whole cents: unit_price * quantity differs from price
\* by at most one cent per unit); also for a line whose count is 0. The
\* patterns 1 and 2 keep a captured count of 0 as the quantity.
C20_ItemsHavePositiveQuantity ==
    last = "parse" /\ ~raised
        => \A k \in DOMAIN items :
              /\ items[k].quantity >= 1
              /\ items[k].price >= 0
              /\ Abs(items[k].unit_price * items[k].quantity - items[k].price)
                     <= items[k].quantity


-----------------------------------------------------------------------------
(* Claims about the thread pools, checked under SpecPool and SpecOcr *)

\* C21: when parse has read the lines through the thread pool, the items of
\* the returned Receipt are in the order of the lines they come from, in
\* whatever order the workers finished: they are the items a pass over the
\* lines in line order gives.
C21_ItemsInLineOrder ==
    last = "parse" /\ call = "none" /\ ~raised
        => items = FoundItems(deduplicated, ExtractAll(deduplicated))

\* C21: parse returned two items of two lines, and the worker of the later
\* line had finished before the worker of the earlier one
C21_Witness ==
    /\ last = "parse" /\ call = "none" /\ ~raised
    /\ Len(items) >= 2
    /\ \E j, k \in DOMAIN futures :
          /\ j < k
          /\ futures[k].finished < futures[j].finished
          /\ ExtractItemsFromLine(deduplicated[j], j).items # <<>>
          /\ ExtractItemsFromLine(deduplicated[k], k).items # <<>>


\* C22: process_image_parallel and parallel_ocr return the region texts
\* joined in region order, one segment per region, in whatever order the
\* workers finished; a region whose OCR failed contributes the empty text
\* and the texts of the other regions stay where they are.
C22_RegionTextsInRegionOrder ==
    last \in {"process_image_parallel", "parallel_ocr"} /\ call = "none"
        => text = [k \in DOMAIN futures |->
                      IF futures[k].ocr.fails THEN <<>> ELSE futures[k].ocr.text]

\* C22: a call returned the text of three regions of which one failed, and a
\* later region had finished before an earlier one
C22_Witness ==
    /\ last \in {"process_image_parallel", "parallel_ocr"} /\ call = "none"
    /\ Len(futures) = 3
    /\ \E k \in DOMAIN futures : futures[k].ocr.fails
    /\ \E k \in DOMAIN futures : ~futures[k].ocr.fails
    /\ \E j, k \in DOMAIN futures :
          j < k /\ futures[k].finished < futures[j].finished


-----------------------------------------------------------------------------
(* Claims about the classification and the pairing loop of                  *)
(* optimize_settlements, checked under SpecSplit                            *)

\* the difference of person p: balance - equal_share
DifferenceOf(p) == Difference(balances, p, EqualShare(total, people))

\* the people the claim calls creditors and debtors
ClaimedCreditors == {p \in Range(people) : DifferenceOf(p) > SETTLEMENT_EPSILON}

ClaimedDebtors == {p \in Range(people) : DifferenceOf(p) < -SETTLEMENT_EPSILON}

\* the creditors of optimize_settlements, as lines 58-66 list them
Creditors == CreditorList(people, balances, EqualShare(total, people))

\* C23, the classification and the direction: a person is a creditor iff
\* balance - equal_share > epsilon and a debtor iff it is < -epsilon; every
\* Settlement goes from a debtor to a creditor, so nobody within epsilon of
\* the equal share is in a settlement and nobody both pays and receives.
C23_DebtorsPayCreditors ==
    Optimized =>
        /\ {Creditors[k].name : k \in DOMAIN Creditors} = ClaimedCreditors
        /\ {Debtors[k].name : k \in DOMAIN Debtors} = ClaimedDebtors
        /\ \A k \in DOMAIN settlements :
              /\ settlements[k].from_person \in ClaimedDebtors
              /\ settlements[k].to_person \in ClaimedCreditors
        /\ \A k, l \in DOMAIN settlements :
              settlements[k].from_person # settlements[l].to_person

\* C23 as stated: also, the amount of every Settlement is above epsilon
C23_AmountsAboveEpsilon ==
    C23_DebtorsPayCreditors
    /\ (Optimized => \A k \in DOMAIN settlements :
                        settlements[k].amount > EpsilonCents)

\* C23 amended: every Settlement goes from a debtor to a creditor as above,
\* and its amount, the unrounded amount above epsilon rounded half-up to the
\* cent, is at least epsilon
C23_AmountsAtLeastEpsilon ==
    C23_DebtorsPayCreditors
    /\ (Optimized => \A k \in DOMAIN settlements :
                        settlements[k].amount >= EpsilonCents)

\* C23: optimize_settlements returned a Settlement of exactly epsilon, while
\* a person within epsilon of the equal share is in no Settlement
C23_Witness ==
    /\ Optimized
    /\ \E k \in DOMAIN settlements : settlements[k].amount = EpsilonCents
    /\ \E p \in Range(people) :
          /\ p \notin ClaimedCreditors \cup ClaimedDebtors
          /\ \A k \in DOMAIN settlements :
                p # settlements[k].from_person /\ p # settlements[k].to_person


\* the place of the person named name in a list of creditors or debtors
PlaceOf(list, name) == CHOOSE k \in DOMAIN list : list[k].name = name

\* C24: the list optimize_settlements returns is in generation order: from
\* front to back the creditors come in non-increasing order of their
\* original surplus and the debtors in non-increasing order of their
\* original deficit, neither pointer into the sorted lists moves back, and
\* no pair of a debtor and a creditor comes twice.
C24_GenerationOrder ==
    Optimized =>
        \E cs \in {SortDesc(Creditors)} : \E ds \in {SortDesc(Debtors)} :
        \A k, l \in DOMAIN settlements :
            k < l =>
                /\ DifferenceOf(settlements[k].to_person)
                       >= DifferenceOf(settlements[l].to_person)
                /\ -DifferenceOf(settlements[k].from_person)
                       >= -DifferenceOf(settlements[l].from_person)
                /\ PlaceOf(cs, settlements[k].to_person)
                       <= PlaceOf(cs, settlements[l].to_person)
                /\ PlaceOf(ds, settlements[k].from_person)
                       <= PlaceOf(ds, settlements[l].from_person)
                /\ <<settlements[k].from_person, settlements[k].to_person>>
                       # <<settlements[l].from_person, settlements[l].to_person>>

\* C24: optimize_settlements returned three settlements between two
\* creditors of different surplus and two debtors of different deficit
C24_Witness ==
    /\ Optimized
    /\ Len(settlements) >= 3
    /\ \E k, l \in DOMAIN settlements :
          DifferenceOf(settlements[k].to_person)
              > DifferenceOf(settlements[l].to_person)
    /\ \E k, l \in DOMAIN settlements :
          DifferenceOf(settlements[k].from_person)
              < DifferenceOf(settlements[l].from_person)

-----------------------------------------------------------------------------
(* Claims about the termination of the pairing loop, checked under SpecSplit *)

\* the loop states of the call of optimize_settlements that produced the
\* current settlements, cut after |creditors| + |debtors| iterations
LoopStates ==
    PairRun(PairStart(people, balances, total), currency,
            Len(Creditors) + Len(Debtors))

\* C25: the pairing loop of optimize_settlements terminates: within
\* |creditors| + |debtors| iterations one of the lists is exhausted, every
\* iteration moves the creditor pointer or the debtor pointer forward and none
\* back, the loop runs at most |creditors| + |debtors| - 1 times when both
\* lists are non-empty (and not at all otherwise), and the settlements it
\* emitted, the returned ones, are at most as many
C25_PairingTerminates ==
    Optimized =>
        \E start \in {PairStart(people, balances, total)} :
        \E n \in {Len(start.creditors) + Len(start.debtors)} :
        \E run \in {PairRun(start, currency, n)} :
            /\ ~PairContinues(run[Len(run)])
            /\ \A k \in 1..(Len(run) - 1) :
                  /\ PairContinues(run[k])
                  /\ run[k + 1].i >= run[k].i
                  /\ run[k + 1].j >= run[k].j
                  /\ run[k + 1].i + run[k + 1].j > run[k].i + run[k].j
                  /\ Len(run[k + 1].settlements) <= Len(run[k].settlements) + 1
            /\ run[Len(run)].settlements = settlements
            /\ IF start.creditors = <<>> \/ start.debtors = <<>>
               THEN Len(run) = 1 /\ settlements = <<>>
               ELSE /\ Len(run) - 1 <= n - 1
                    /\ Len(settlements) <= n - 1

\* C25: optimize_settlements ran a loop of |creditors| + |debtors| - 1 = 3
\* iterations, one of which moved both pointers never, and returned as many
\* settlements
C25_Witness ==
    /\ Optimized
    /\ Len(settlements) = 3
    /\ Len(Creditors) + Len(Debtors) = 4
    /\ Len(LoopStates) = 4
    /\ ~PairContinues(LoopStates[4])

-----------------------------------------------------------------------------
(* Claims about one pass of _merge_duplicate_items, checked under SpecMerge *)

RECURSIVE SumQuantities(_)
\* the sum of the quantities of the items of a list
SumQuantities(list) ==
    IF list = <<>> THEN 0
    ELSE list[1].quantity + SumQuantities(Tail(list))

\* the positions of the input items kept as merged items: the items of a list
\* handed to the merge carry their position as id
KeptPositions == {merged[k].id : k \in DOMAIN merged}

AbsorbedPositions == DOMAIN items \ KeptPositions

\* absorbed_by sends every absorbed position to the one kept position it went
\* into: an earlier one, of an item similar to it, such that every merged item
\* has the name and the id of its kept item, the quantities of the kept item
\* and of the items it absorbed, and the union of their assigned_to
IsAbsorption(absorbed_by) ==
    /\ \A j \in AbsorbedPositions :
          /\ absorbed_by[j] < j
          /\ AreItemsSimilar(items[absorbed_by[j]], items[j])
    /\ \A k \in DOMAIN merged :
          \E group \in {{merged[k].id} \cup
                        {j \in AbsorbedPositions : absorbed_by[j] = merged[k].id}} :
              /\ merged[k].name = items[merged[k].id].name
              /\ merged[k].quantity =
                     SumQuantities(SelectSeq(items, LAMBDA it : it.id \in group))
              /\ Range(merged[k].assigned_to) =
                     UNION {Range(items[j].assigned_to) : j \in group}

\* C26: in one pass of _merge_duplicate_items every input item is either kept
\* as a merged item, in the order of first detection and with the id of its
\* first occurrence, or absorbed into exactly one earlier kept item; the
\* quantities of the output sum to those of the input and every assigned_to of
\* the output is the union of the assigned_to of the items absorbed
C26_KeptOrAbsorbedOnce ==
    last = "merge" =>
        /\ KeptPositions \subseteq DOMAIN items
        /\ \A k, l \in DOMAIN merged : k < l => merged[k].id < merged[l].id
        /\ 1 \in KeptPositions \/ items = <<>>
        /\ \E absorbed_by \in [AbsorbedPositions -> KeptPositions] :
              IsAbsorption(absorbed_by)
        /\ SumQuantities(merged) = SumQuantities(items)

\* C26: a merge of three items kept two of them and absorbed the third, of
\* another person, into the first
C26_Witness ==
    /\ last = "merge"
    /\ Len(items) = 3
    /\ Len(merged) = 2
    /\ Cardinality(Range(merged[1].assigned_to)) = 2
    /\ merged[1].quantity = 2

-----------------------------------------------------------------------------
(* Claims about repeated merging, checked under SpecMerge *)

\* C30: _merge_duplicate_items is idempotent: merging the result of a merge
\* changes nothing, and the result of a merge contains no two items that
\* _are_items_similar reports as duplicates
C30_MergeIdempotent ==
    last = "merge" =>
        /\ MergeDuplicateItems(merged) = merged
        /\ \A k, l \in DOMAIN merged :
              k < l => ~AreItemsSimilar(merged[k], merged[l])

-----------------------------------------------------------------------------
(* Claims about GroupifyCLI, checked under SpecCli *)

\* what a BillSplitter made now of the receipt and the people computes
FreshItems == EquallyIfUnassigned(items, people)

FreshBalances == CalcBalances(people, FreshItems, tip_amount)

FreshSettlements == Pairing(people, FreshBalances, total, currency).settlements

\* C27: after any sequence of CLI operations, the balances and settlements
\* export_results writes for a receipt and a non-empty people list are those
\* a fresh BillSplitter computes from the current receipt and people
C27_ExportIsFresh ==
    (last = "export_results" /\ cli.receipt /\ people # <<>>) =>
        /\ exported.analysis
        /\ exported.individual_shares = FreshBalances
        /\ exported.settlements = FreshSettlements

\* C28: after any sequence of add person, quick add, remove person and clear
\* all, the people list contains no name twice and no empty name
C28_PeopleUniqueAndNamed ==
    /\ \A k, l \in DOMAIN people : k # l => people[k] # people[l]
    /\ \A k \in DOMAIN people : people[k] # <<>>

\* C28: a name typed after a quick add and a removal left the list as it was,
\* for it was blank or in the list
C28_Witness ==
    /\ last = "add_person"
    /\ cli.inputs = 3
    /\ Len(people) = 3
    /\ PersonName(1) \in Range(people)
    /\ PersonName(2) \notin Range(people)

\* C29: after any sequence of people-management and item-assignment
\* operations every name in an item's assigned_to is in the people list, so
\* the balances calculate_balances computes have a key for it
C29_AssignedArePeople ==
    /\ \A k \in DOMAIN items : Range(items[k].assigned_to) \subseteq Range(people)
    /\ last = "calculate_settlements" =>
          \A k \in DOMAIN items :
              Range(items[k].assigned_to) \subseteq DOMAIN balances

=============================================================================
